---- MODULE Spec2Model ----
(***************************************************************************)
(* Model of the Canvas agent WebSocket gateway (ws_server.py): connection  *)
(* handlers, authentication, the session store and the download            *)
(* sub-protocol, together with the bounded tool-calling agent loop the     *)
(* gateway drives.                                                         *)
(*                                                                         *)
(* Time is counted in TOTP intervals (pyotp's time step): `now` is the     *)
(* value of time.time() in that unit, and the session TTL is expressed in  *)
(* the same unit.                                                          *)
(***************************************************************************)
EXTENDS Integers, Sequences, FiniteSets, TLC

\* ------------------------------------------------------------------ bounds
NConn == 2
MaxKeys == 2
MaxTime == 2
MaxInbox == 1
MaxCourses == 2
MaxSteps == 3
MaxCalls == 2

\* ------------------------------------------------------- program constants
DEFAULT_TTL == 3600
VALID_WINDOW == 1

Conns == 1..NConn
Keys == 1..MaxKeys
Times == 0..MaxTime

\* The course ids the Canvas collaborator can list, in its listing order.
CourseList == [i \in 1..MaxCourses |-> 111 * i]

RECURSIVE SeqSum(_)
SeqSum(s) == IF s = <<>> THEN 0 ELSE Head(s) + SeqSum(Tail(s))

Range(s) == {s[i] : i \in DOMAIN s}

\* A catalog is what fetch_all_pages returns: a list of courses, here the
\* list of their ids.  Every contiguous window of CourseList of at most
\* MaxCourses entries is a possible answer of the collaborator.
Windows ==
    {SubSeq(CourseList, i, j) : i \in 1..Len(CourseList), j \in 0..Len(CourseList)}

Catalogs == {s \in Windows : Len(s) <= MaxCourses}

\* Optional[List[...]]: None or a list.
NoCourses == [some |-> FALSE, courses |-> <<>>]
SomeCourses(cat) == [some |-> TRUE, courses |-> cat]

VARIABLES
    env,          \* the process environment read at import time
    now,          \* time.time()
    SESSION_STORE,\* the keys of SESSION_STORE
    sess,         \* the session dict object created for each key
    minted,       \* number of session keys issued so far
    conn,         \* per connection: the locals of its websocket_handler
    inbox,        \* per connection: messages received and not yet iterated
    AGENT_CACHE,  \* _AGENT_CACHE: 0 is None, otherwise the agent instance
    auto,         \* file_index_downloader.AUTO_MODE / AUTO_SELECTED_COURSE_IDS / AUTO_CONFIRM
    stats,        \* file_index_downloader.stats["courses"]
    out,          \* the last handler step: which connection acted, what it sent
    run,          \* AgentRunState of one run(query) of the agent loop
    tools,        \* os.environ as the tools read it, the tool instance under
                  \* study and the outcome of the last constructor or forward
    accesses      \* what the last handler step did to the session store and to
                  \* session dicts, in order, each with whether SESSION_LOCK was held

vars == <<env, now, SESSION_STORE, sess, minted, conn, inbox, AGENT_CACHE,
         auto, stats, out, run, tools, accesses>>

\* ------------------------------------------------------------ environment
\* os.getenv(name): unset (None) or a string.
Unset == [set |-> FALSE, text |-> ""]
EnvStr(t) == [set |-> TRUE, text |-> t]
\* The raw CANVAS_WS_SESSION_TTL: unset, a string int() rejects, or an integer.
TtlUnset == [set |-> FALSE, isint |-> FALSE, val |-> 0]
TtlJunk == [set |-> TRUE, isint |-> FALSE, val |-> 0]
TtlInt(n) == [set |-> TRUE, isint |-> TRUE, val |-> n]

Max(a, b) == IF a >= b THEN a ELSE b

_parse_session_ttl(raw) ==
    IF ~raw.set THEN DEFAULT_TTL
    ELSE IF ~raw.isint THEN DEFAULT_TTL
    ELSE Max(raw.val, 0)

AUTH_PASSWORD ==
    IF env.CANVAS_WS_SECRET.set THEN env.CANVAS_WS_SECRET.text
    ELSE "canvas-agent-password"

TOTP_SECRET == env.CANVAS_WS_TOTP_SECRET

TOTP_DISABLED == env.CANVAS_WS_TOTP_DISABLED \in {"1", "true", "yes", "on"}

SESSION_TTL_SECONDS == _parse_session_ttl(env.CANVAS_WS_SESSION_TTL)

\* The environments explored: the default deployment with TOTP and an idle
\* TTL of one time unit; TOTP switched off and expiry switched off; an empty
\* shared secret; TOTP required but no TOTP secret configured.
Environments ==
    { [CANVAS_WS_SECRET |-> Unset, CANVAS_WS_TOTP_SECRET |-> EnvStr("BASE32SECRET"),
       CANVAS_WS_TOTP_DISABLED |-> "false", CANVAS_WS_SESSION_TTL |-> TtlInt(1)],
      [CANVAS_WS_SECRET |-> EnvStr("hunter2"), CANVAS_WS_TOTP_SECRET |-> Unset,
       CANVAS_WS_TOTP_DISABLED |-> "true", CANVAS_WS_SESSION_TTL |-> TtlInt(0)],
      [CANVAS_WS_SECRET |-> EnvStr(""), CANVAS_WS_TOTP_SECRET |-> Unset,
       CANVAS_WS_TOTP_DISABLED |-> "true", CANVAS_WS_SESSION_TTL |-> TtlUnset],
      [CANVAS_WS_SECRET |-> Unset, CANVAS_WS_TOTP_SECRET |-> Unset,
       CANVAS_WS_TOTP_DISABLED |-> "false", CANVAS_WS_SESSION_TTL |-> TtlJunk] }

\* --------------------------------------------------------------- messages
\* A JSON value read with dict.get: absent, or present with a string value
\* or a value of another type.
Absent == [some |-> FALSE, isstr |-> FALSE, text |-> ""]
Str(t) == [some |-> TRUE, isstr |-> TRUE, text |-> t]
NonStr == [some |-> TRUE, isstr |-> FALSE, text |-> ""]

\* The totp field: absent, a non-string, a blank string, or the code string
\* the authenticator shows during time step `code`.
TotpAbsent == [isstr |-> FALSE, blank |-> FALSE, code |-> 0]
TotpBlank == [isstr |-> TRUE, blank |-> TRUE, code |-> 0]
TotpCode(s) == [isstr |-> TRUE, blank |-> FALSE, code |-> s]

\* A JSON list field: absent, present and not a list, or a list of items
\* each of which int() accepts (isint, with its value) or rejects.
Item(n) == [isint |-> TRUE, v |-> n]
BadItem == [isint |-> FALSE, v |-> 0]
NoList == [some |-> FALSE, islist |-> FALSE, items |-> <<>>]
NotAList == [some |-> TRUE, islist |-> FALSE, items |-> <<>>]
List(items) == [some |-> TRUE, islist |-> TRUE, items |-> items]
Ints(s) == List([i \in DOMAIN s |-> Item(s[i])])

\* auto_confirm: absent (defaults to True), a bool, or something else.
BoolTrue == [isbool |-> TRUE, v |-> TRUE]
BoolFalse == [isbool |-> TRUE, v |-> FALSE]
NotBool == [isbool |-> FALSE, v |-> FALSE]

\* shape: "text" is not JSON at all, "value" is JSON but not an object,
\* "object" is a JSON object with the fields below.  session_key is 0 when
\* absent or not a string, -1 for a blank string, else the key token.
BaseMsg ==
    [shape |-> "object", type |-> Absent, session_key |-> 0,
     password |-> Absent, totp |-> TotpAbsent, query |-> Absent,
     course_ids |-> NoList, course_indices |-> NoList,
     skip_download |-> FALSE, auto_confirm |-> BoolTrue]

Typed(t) == [BaseMsg EXCEPT !.type = Str(t)]

Passwords == {Absent, Str(""), Str("hunter2"), Str("canvas-agent-password"), Str("wrong")}
Totps == {TotpAbsent, TotpBlank} \cup {TotpCode(s) : s \in Times}

AuthMsgs ==
    {[Typed("auth") EXCEPT !.password = p, !.totp = t] :
        p \in Passwords, t \in Totps}
    \cup {[Typed("auth") EXCEPT !.session_key = k] : k \in Keys \cup {-1}}
    \cup {[Typed("auth") EXCEPT !.session_key = k,
                                !.password = Str("canvas-agent-password"),
                                !.totp = TotpCode(s)] :
            k \in Keys \cup {-1}, s \in Times}

ChatMsgs ==
    {[m EXCEPT !.query = q] :
        m \in {BaseMsg, Typed("chat"), Typed("query")},
        q \in {Absent, NonStr, Str(""), Str("  "), Str("hi")}}

IndexSeqs ==
    {<<>>} \cup {<<i>> : i \in 0..(MaxCourses + 1)}
    \cup {<<i, j>> : i \in 1..MaxCourses, j \in 1..(MaxCourses + 1)}

DownloadMsgs ==
    {Typed("download")}
    \cup {[Typed("download") EXCEPT !.course_indices = x] :
            x \in {NotAList, List(<<BadItem>>)} \cup {Ints(s) : s \in IndexSeqs}}
    \cup {[Typed("download") EXCEPT !.course_ids = x] :
            x \in {NotAList, List(<<BadItem>>), Ints(<<>>), Ints(<<333>>),
                   Ints(<<111>>), Ints(<<222, 111>>)}}
    \cup {[Typed("download") EXCEPT !.course_ids = Ints(<<333>>),
                                    !.course_indices = Ints(<<1>>)],
          [Typed("download") EXCEPT !.course_ids = NotAList,
                                    !.course_indices = Ints(<<1>>)],
          [Typed("download") EXCEPT !.skip_download = TRUE],
          [Typed("download") EXCEPT !.auto_confirm = NotBool],
          [Typed("download") EXCEPT !.auto_confirm = BoolFalse,
                                    !.course_indices = Ints(<<1>>)],
          [Typed("download") EXCEPT !.auto_confirm = NotBool,
                                    !.course_indices = Ints(<<1>>)]}

Msgs ==
    {[BaseMsg EXCEPT !.shape = "text"], [BaseMsg EXCEPT !.shape = "bytes"],
     [BaseMsg EXCEPT !.shape = "value"], Typed("bogus")}
    \cup AuthMsgs \cup ChatMsgs \cup DownloadMsgs

\* ---------------------------------------------------------------- replies
NoReply ==
    [status |-> "", error |-> "", answer |-> "", session_key |-> 0,
     expires_in |-> -1, courses |-> <<>>, invalid |-> <<>>, stats |-> -1]

Error(text) == [NoReply EXCEPT !.error = text]

\* {"status": "authenticated", "session_key": ..., ["expires_in": ...]}
AuthenticatedReply(key) ==
    [NoReply EXCEPT !.status = "authenticated", !.session_key = key,
                    !.expires_in = IF SESSION_TTL_SECONDS > 0
                                   THEN SESSION_TTL_SECONDS ELSE -1]

\* enumerate(courses, start=1) as the list of {"index", "id"} entries.
CourseListing(courses) == [i \in DOMAIN courses |-> [index |-> i, id |-> courses[i]]]

IsError(r) == r.error # ""

\* ----------------------------------------------------------- authentication
\* TotpVerify with no allowance for clock skew.
TotpVerify_Exact(code, window) == code.code = now

\* pyotp: TOTP.verify(otp, valid_window=w) accepts the code of the current
\* time step and of the w steps before and after it.
TotpVerify(code, window) ==
    \E i \in (0 - window)..window : code.code = now + i

authenticate_payload(payload) ==
    IF AUTH_PASSWORD = ""
        THEN [ok |-> FALSE, error |-> "Server password is not configured."]
    ELSE IF ~(payload.password.some /\ payload.password.isstr
              /\ payload.password.text = AUTH_PASSWORD)
        THEN [ok |-> FALSE, error |-> "Invalid password."]
    ELSE IF TOTP_DISABLED
        THEN [ok |-> TRUE, error |-> ""]
    ELSE IF ~payload.totp.isstr \/ payload.totp.blank
        THEN [ok |-> FALSE, error |-> "Missing TOTP code."]
    ELSE IF ~TOTP_SECRET.set \/ TOTP_SECRET.text = ""
        THEN [ok |-> FALSE, error |-> "Server missing CANVAS_WS_TOTP_SECRET."]
    ELSE IF ~TotpVerify(payload.totp, VALID_WINDOW)
        THEN [ok |-> FALSE, error |-> "Invalid or expired TOTP code."]
    ELSE [ok |-> TRUE, error |-> ""]

\* ----------------------------------------------------------------- sessions
\* Expired without the test for a TTL of zero.
Expired_ZeroTtl(current) ==
    {k \in SESSION_STORE : current - sess[k].last_seen > SESSION_TTL_SECONDS}

\* Expired with the comparison against the TTL left out.
Expired_Never(current) == {}

\* The keys prune_sessions removes at time `current`.
Expired(current) ==
    IF SESSION_TTL_SECONDS <= 0 THEN {}
    ELSE {k \in SESSION_STORE : current - sess[k].last_seen > SESSION_TTL_SECONDS}

prune_sessions == SESSION_STORE \ Expired(now)

\* secrets.token_urlsafe(32): a token no earlier call returned.
NewSessionKey == minted + 1

\* What the session functions do to SESSION_STORE and to the session dicts,
\* in program order.  op is the operation on the store ("prune", "lookup",
\* "insert") or the field of a session dict that is assigned; locked is
\* whether the statement is inside `async with SESSION_LOCK`; stored is
\* whether what it touches is the store or a dict that is in the store.
Access(op, locked, stored) == [op |-> op, locked |-> locked, stored |-> stored]

prune_sessions_accesses ==
    IF SESSION_TTL_SECONDS <= 0 THEN <<>> ELSE <<Access("prune", TRUE, TRUE)>>

create_session_accesses ==
    prune_sessions_accesses \o <<Access("insert", TRUE, TRUE)>>

get_session_accesses(found) ==
    prune_sessions_accesses \o <<Access("lookup", TRUE, TRUE)>>
    \o (IF found THEN <<Access("last_seen", TRUE, TRUE)>> ELSE <<>>)

\* update_session that takes the lock only for the assignment into the store.
update_session_accesses_LateLock(present) ==
    <<Access("last_seen", FALSE, present), Access("lookup", FALSE, TRUE)>>
    \o (IF present THEN <<Access("insert", TRUE, TRUE)>> ELSE <<>>)

\* update_session: last_seen is assigned before the lock is taken.
update_session_accesses(present) ==
    <<Access("last_seen", FALSE, present), Access("lookup", TRUE, TRUE)>>
    \o (IF present THEN <<Access("insert", TRUE, TRUE)>> ELSE <<>>)

\* websocket_handler storing its catalog, after a routed message and in its
\* `finally`: nothing when it has no session, else
\* session_data["pending_courses"] = pending_courses, then update_session.
StoreAccesses(session_key) ==
    IF session_key = 0 THEN <<>>
    ELSE <<Access("pending_courses", FALSE, session_key \in SESSION_STORE)>>
         \o update_session_accesses(session_key \in SESSION_STORE)

\* ------------------------------------------------- handle_download_request
AllInts(items) == \A i \in DOMAIN items : items[i].isint
Values(items) == [i \in DOMAIN items |-> items[i].v]

\* The loop over `indices` with the `seen` set: first occurrences, in order.
RECURSIVE Unique(_, _)
Unique(s, seen) ==
    IF s = <<>> THEN <<>>
    ELSE IF Head(s) \in seen THEN Unique(Tail(s), seen)
    ELSE <<Head(s)>> \o Unique(Tail(s), seen \cup {Head(s)})

RECURSIVE Invalid(_, _)
Invalid(indices, n) ==
    IF indices = <<>> THEN <<>>
    ELSE (IF Head(indices) < 1 \/ Head(indices) > n THEN <<Head(indices)>> ELSE <<>>)
         \o Invalid(Tail(indices), n)

\* ResolveIndices reading pending_courses[idx] where the code has [idx - 1].
ResolveIndices_OffByOne(indices, courses) ==
    LET u == Unique(indices, {}) IN
    [i \in DOMAIN u |-> courses[IF u[i] < Len(courses) THEN u[i] + 1 ELSE 1]]

ResolveIndices(indices, courses) ==
    LET u == Unique(indices, {}) IN [i \in DOMAIN u |-> courses[u[i]]]

Rejected(text) ==
    [kind |-> "error", reply |-> Error(text), course_ids |-> <<>>,
     auto_confirm |-> TRUE, skip_download |-> FALSE]

\* Everything handle_download_request decides before its first await, with
\* idx as course_indices_raw: an error reply, a catalog fetch, or a downloader
\* run with these settings (course_ids empty:
\* configure_automation(course_ids=None)).
Decide(message, pending_courses, idx) ==
    LET ids == message.course_ids
        skip == message.skip_download
        indices == Values(idx.items)
        n == Len(pending_courses.courses)
        course_ids == IF idx.some THEN ResolveIndices(indices, pending_courses.courses)
                      ELSE IF ids.some THEN Values(ids.items)
                      ELSE <<>>
    IN
    IF ids.some /\ ~ids.islist
        THEN Rejected("course_ids must be a list of integers.")
    ELSE IF ids.some /\ ~AllInts(ids.items)
        THEN Rejected("course_ids must contain valid integers.")
    ELSE IF idx.some /\ ~idx.islist
        THEN Rejected("course_indices must be a list of integers.")
    ELSE IF idx.some /\ ~pending_courses.some
        THEN Rejected("Course list not initialized. Request the course list first.")
    ELSE IF idx.some /\ ~AllInts(idx.items)
        THEN Rejected("course_indices must contain valid integers.")
    ELSE IF idx.some /\ indices = <<>>
        THEN Rejected("course_indices cannot be empty.")
    ELSE IF idx.some /\ Invalid(indices, n) # <<>>
        THEN [Rejected("course_indices out of range") EXCEPT
                 !.reply.invalid = Invalid(indices, n)]
    ELSE IF ~message.auto_confirm.isbool
        THEN Rejected("auto_confirm must be a boolean.")
    ELSE IF ~ids.some /\ ~idx.some /\ ~skip
        THEN [Rejected("") EXCEPT !.kind = "catalog"]
    ELSE IF course_ids = <<>> /\ ~skip
        THEN Rejected("Provide course_ids or course_indices after requesting the course list.")
    ELSE [kind |-> "run", reply |-> NoReply, course_ids |-> course_ids,
          auto_confirm |-> message.auto_confirm.v, skip_download |-> skip]

\* DownloadDecision taking the course_indices block only when a catalog is
\* pending.
DownloadDecision_SkipIndices(message, pending_courses) ==
    Decide(message, pending_courses,
           IF pending_courses.some THEN message.course_indices ELSE NoList)

DownloadDecision(message, pending_courses) ==
    Decide(message, pending_courses, message.course_indices)

\* configure_automation / clear_automation: the downloader's module globals.
AutoOff == [AUTO_MODE |-> FALSE, AUTO_SELECTED_COURSE_IDS |-> {}, AUTO_ALL |-> TRUE,
            AUTO_CONFIRM |-> TRUE]

configure_automation(course_ids, auto_confirm) ==
    [AUTO_MODE |-> TRUE, AUTO_SELECTED_COURSE_IDS |-> Range(course_ids),
     AUTO_ALL |-> course_ids = <<>>, AUTO_CONFIRM |-> auto_confirm]

clear_automation == AutoOff

\* select_courses: the courses the downloader goes on to process.
select_courses(courses) ==
    IF auto.AUTO_ALL THEN courses
    ELSE SelectSeq(courses, LAMBDA id : id \in auto.AUTO_SELECTED_COURSE_IDS)

\* -------------------------------------------------------------- agent loop
\* The agent loop built by build_agent (AsyncMultiStepAgent); its module is
\* not among the sources, so it is written from the design document's
\* algorithm (section 4.3) and data model (section 3).
MAX_STEPS == 15

\* The tools of the agent's tool set, and what the model may ask for.
Registered == {"search", "flaky"}
ToolNames == Registered \cup {"missing"}

\* ToolResult: output XOR error.
Output(text) == [output |-> text, error |-> ""]
Failure(text) == [output |-> "", error |-> text]

\* ConversationMessage.
Message(role) == [role |-> role, tool_calls |-> <<>>, tool_call_id |-> 0,
                  result |-> Output("")]
AssistantMessage(requests) == [Message("assistant") EXCEPT !.tool_calls = requests]
ToolMessage(request, result) ==
    [Message("tool") EXCEPT !.tool_call_id = request.id, !.result = result]

\* ToolCallRequest[]: the model's requests, with the call ids it gave them.
Requests(names, first_id) ==
    [i \in DOMAIN names |-> [id |-> first_id + i - 1, name |-> names[i]]]

\* Step 2c for one request: an unregistered name gives
\* ToolResult(error="unknown tool <name>"); an exception of forward becomes a
\* ToolResult.error; otherwise forward's result.
Execute(request) ==
    IF request.name \notin Registered THEN Failure("unknown tool " \o request.name)
    ELSE IF request.name = "flaky" THEN Failure("forward raised")
    ELSE Output("found")

\* ToolMessages that stops the round at the first request that fails.
ToolMessages_AbortRound(requests) ==
    LET failing == {i \in DOMAIN requests : Execute(requests[i]).error # ""}
        last == IF failing = {} THEN Len(requests)
                ELSE CHOOSE i \in failing : \A j \in failing : i <= j
    IN
    [i \in 1..last |-> ToolMessage(requests[i], Execute(requests[i]))]

\* ToolMessages leaving out the answers to unregistered tools.
ToolMessages_KnownOnly(requests) ==
    LET known == SelectSeq(requests, LAMBDA r : r.name \in Registered) IN
    [i \in DOMAIN known |-> ToolMessage(known[i], Execute(known[i]))]

\* Step 2d: one tool-role message per tool-call id, in request order.
ToolMessages(requests) ==
    [i \in DOMAIN requests |-> ToolMessage(requests[i], Execute(requests[i]))]

\* StepsRemain admitting one round more.
StepsRemain_Inclusive(step, max_steps) == step <= max_steps

\* Step 2: loop while step counter < configured maximum.
StepsRemain(step, max_steps) == step < max_steps

\* AgentRunState; model_calls and rounds count the Model Client's calls and
\* the rounds of tool calls it asked for.
IdleRun(max_steps) ==
    [state |-> "Idle", max_steps |-> max_steps, step |-> 0, messages |-> <<>>,
     requests |-> <<>>, next_id |-> 1, model_calls |-> 0, rounds |-> 0,
     result |-> "none"]

Terminal == {"Done", "StepLimitExceeded", "Failed"}

\* Top of the loop: another model call, or step 3.
Loop(r) ==
    IF StepsRemain(r.step, r.max_steps)
    THEN [r EXCEPT !.state = "AwaitingModel"]
    ELSE [r EXCEPT !.state = "StepLimitExceeded", !.result = "StepLimitExceeded"]

\* ------------------------------------------------------------------- tools
\* Python values as the tools handle them: None, or a value with its text.
PyNone == [null |-> TRUE, text |-> ""]
PyStr(text) == [null |-> FALSE, text |-> text]

\* ToolResult(output=..., error=...) as the tools construct it.
ToolResult(output, error) == [output |-> output, error |-> error]

\* The tools registered in canvas_tools.py and example_calculator.py.
CanvasTools ==
    {"canvas_list_courses", "canvas_get_assignments", "canvas_get_modules",
     "canvas_get_module_items", "canvas_get_files", "canvas_get_discussions",
     "canvas_get_announcements", "canvas_get_calendar_events",
     "canvas_get_grades", "canvas_get_pages", "canvas_get_page_content",
     "canvas_get_quizzes", "canvas_get_todo_items", "canvas_get_upcoming_events",
     "canvas_get_groups", "canvas_get_file_info", "canvas_get_folders",
     "canvas_get_folder_files", "canvas_search_files"}

VectorStoreTools ==
    {"vector_store_list", "vector_store_search", "vector_store_list_files",
     "vector_store_get_file"}

CalculatorTools == {"calculator_tool"}

AllTools == CanvasTools \cup VectorStoreTools \cup CalculatorTools

\* The Canvas tools that read one object (result.get) where the others
\* iterate over a list.
ObjectTools == {"canvas_get_page_content", "canvas_get_file_info"}

\* The credentials the tools read from os.environ.
Credentials == {"CANVAS_ACCESS_TOKEN", "OPENAI_API_KEY"}

\* What the Canvas server does with a request: the request raises, or a
\* status and a JSON body.
Responses ==
    {"raised", "404", "500", "200 list", "200 list of numbers", "200 object",
     "200 error text", "200 error null"}

\* CanvasAPIBase._make_request: the parsed body of a 200, or an error dict.
ErrorDict(error) == [kind |-> "object", has_error |-> TRUE, error |-> error]
Body(kind) == [kind |-> kind, has_error |-> FALSE, error |-> PyNone]

_make_request(response) ==
    CASE response = "raised" -> ErrorDict(PyStr("Request Error"))
      [] response = "404" -> ErrorDict(PyStr("Resource not found"))
      [] response = "500" -> ErrorDict(PyStr("API Request Failed"))
      [] response = "200 list" -> Body("list")
      [] response = "200 list of numbers" -> Body("numbers")
      [] response = "200 object" -> Body("object")
      [] response = "200 error text" -> ErrorDict(PyStr("denied"))
      [] response = "200 error null" -> ErrorDict(PyNone)

\* The formatting after the error check: the tool's text, or the message of
\* its `except Exception` when the body is not of the shape it reads.
Format(tool, result) ==
    IF result.kind = (IF tool \in ObjectTools THEN "object" ELSE "list")
    THEN ToolResult(PyStr("formatted"), PyNone)
    ELSE ToolResult(PyNone, PyStr("failed"))

\* forward of a Canvas tool: `first` answers its request; canvas_get_grades
\* asks for users/self first and then for the enrollments (`second`).
CanvasForward(tool, first, second) ==
    LET user_result == _make_request(first)
        result == IF tool = "canvas_get_grades"
                  THEN _make_request(second) ELSE _make_request(first)
    IN
    IF tool = "canvas_get_grades" /\ user_result.has_error
    THEN ToolResult(PyNone, user_result.error)
    ELSE IF tool = "canvas_get_grades" /\ user_result.kind # "object"
    THEN ToolResult(PyNone, PyStr("failed"))
    ELSE IF result.has_error THEN ToolResult(PyNone, result.error)
    ELSE Format(tool, result)

\* What the OpenAI client does with a call: it raises, or returns no data, or
\* returns data.
Replies == {"raised", "empty", "data"}

\* forward of a Vector Store tool.
VectorStoreForward(tool, installed, environ, reply) ==
    IF ~installed THEN ToolResult(PyNone, PyStr("OpenAI library not installed"))
    ELSE IF "OPENAI_API_KEY" \notin environ
    THEN ToolResult(PyNone, PyStr("OPENAI_API_KEY not configured"))
    ELSE IF reply = "raised" THEN ToolResult(PyNone, PyStr("failed"))
    ELSE IF reply = "empty" /\ tool # "vector_store_get_file"
    THEN ToolResult(PyStr("nothing found"), PyNone)
    ELSE ToolResult(PyStr("formatted"), PyNone)

\* CalculatorTool.forward: eval returns a value, or raises.
CalculatorForward(evaluates) ==
    IF evaluates THEN ToolResult(PyStr("result"), PyNone)
    ELSE ToolResult(PyNone, PyStr("failed"))

\* Does the constructor of the tool raise?  Only CanvasAPIBase has one that
\* looks at the environment.
ConstructorRaises(tool, environ) ==
    tool \in CanvasTools /\ "CANVAS_ACCESS_TOKEN" \notin environ

\* No tool instance yet, in a process with these credentials set and the
\* openai package installed or not.
NoOutcome == [op |-> "none", tool |-> "none", raised |-> FALSE,
              result |-> ToolResult(PyNone, PyNone)]
NoTools(environ, installed) ==
    [environ |-> environ, installed |-> installed, instance |-> "none",
     last |-> NoOutcome]

\* ------------------------------------------------------------ gateway state
NoJob ==
    [query |-> "", agent |-> 0, course_ids |-> <<>>, auto_confirm |-> TRUE,
     skip_download |-> FALSE, by_index |-> FALSE, selected |-> <<>>]

\* The locals of websocket_handler at its start.  session_key 0 is None;
\* session_data is the dict sess[session_key].  pc is where the handler is
\* suspended: "closed" (no handler), "idle" (waiting for the next message),
\* "agent" (in agent.run), "catalog" (in fetch_course_catalog), "download"
\* and "processing" (in file_index_downloader.main, before and after
\* select_courses).  origin records where pending_courses came from.
FreshHandler ==
    [pc |-> "idle", authenticated |-> FALSE, pending_courses |-> NoCourses,
     session_key |-> 0, origin |-> "none", job |-> NoJob]

NoHandler == [FreshHandler EXCEPT !.pc = "closed"]

NoSession == [last_seen |-> 0, pending_courses |-> NoCourses]

Quiet == [conn |-> 0, sent |-> FALSE, body |-> NoReply]
Sent(c, reply) == [conn |-> c, sent |-> TRUE, body |-> reply]
Silent(c) == [conn |-> c, sent |-> FALSE, body |-> NoReply]

\* The module's globals at import, no connection yet.
Boot ==
    /\ now = 0
    /\ SESSION_STORE = {}
    /\ sess = [k \in Keys |-> NoSession]
    /\ minted = 0
    /\ conn = [c \in Conns |-> NoHandler]
    /\ inbox = [c \in Conns |-> 0]
    /\ AGENT_CACHE = 0
    /\ auto = AutoOff
    /\ stats = 0
    /\ out = Quiet
    /\ accesses = <<>>

\* The server as started: its environment, and an agent configured with
\* agent_config["max_steps"] that is not running.
Init ==
    /\ Boot
    /\ env \in Environments
    /\ run = IdleRun(MAX_STEPS)
    /\ tools = NoTools(Credentials, TRUE)

\* -------------------------------------------------------- time and clients
Tick ==
    /\ now < MaxTime
    /\ now' = now + 1
    /\ out' = Quiet
    /\ accesses' = <<>>
    /\ UNCHANGED <<tools, run, env, SESSION_STORE, sess, minted, conn, inbox, AGENT_CACHE, auto, stats>>

\* A client connects: serve() starts websocket_handler for it.
ClientConnect(c) ==
    /\ conn[c].pc = "closed"
    /\ conn' = [conn EXCEPT ![c] = FreshHandler]
    /\ inbox' = [inbox EXCEPT ![c] = 0]
    /\ out' = Quiet
    /\ accesses' = <<>>
    /\ UNCHANGED <<tools, run, env, now, SESSION_STORE, sess, minted, AGENT_CACHE, auto, stats>>

\* A client sends a message; it waits in the connection's queue until the
\* handler's `async for` takes it.  Its content is chosen when it is taken.
ClientSend(c) ==
    /\ conn[c].pc # "closed"
    /\ inbox[c] < MaxInbox
    /\ inbox' = [inbox EXCEPT ![c] = @ + 1]
    /\ out' = Quiet
    /\ accesses' = <<>>
    /\ UNCHANGED <<tools, run, env, now, SESSION_STORE, sess, minted, conn, AGENT_CACHE, auto, stats>>

\* ----------------------------------------------------------- session store
\* A session dict that is neither in SESSION_STORE nor the session_data of a
\* running handler is unreachable: it is garbage, not state.
Reachable(objects, store, handlers) ==
    [k \in Keys |->
        IF k \in store \/ (\E c \in Conns : handlers[c].session_key = k)
        THEN objects[k] ELSE NoSession]

\* update_session that stamps last_seen and leaves the catalog of the stored
\* session as it was.
update_session_Stamp(session_key, pending_courses) ==
    IF session_key = 0 THEN sess
    ELSE [sess EXCEPT ![session_key].last_seen = now]

\* update_session that writes the catalog into every session.
update_session_All(session_key, pending_courses) ==
    IF session_key = 0 THEN sess
    ELSE [k \in Keys |-> [last_seen |-> IF k = session_key THEN now ELSE sess[k].last_seen,
                          pending_courses |-> pending_courses]]

\* update_session that keeps the catalog a session already has.
update_session_KeepFirst(session_key, pending_courses) ==
    IF session_key = 0 THEN sess
    ELSE [sess EXCEPT ![session_key] =
            [last_seen |-> now,
             pending_courses |-> IF @.pending_courses.some THEN @.pending_courses
                                 ELSE pending_courses]]

\* update_session that writes 0 as last_seen.
update_session_Epoch(session_key, pending_courses) ==
    IF session_key = 0 THEN sess
    ELSE [sess EXCEPT ![session_key] =
            [last_seen |-> 0, pending_courses |-> pending_courses]]

\* The `finally` block and the end of a routed iteration:
\* session_data["pending_courses"] = pending_courses; update_session(...).
\* update_session stamps the dict and stores it under the key if the key is
\* still present; the dict stored under a key is always that key's dict.
update_session(session_key, pending_courses) ==
    IF session_key = 0 THEN sess
    ELSE [sess EXCEPT ![session_key] =
            [last_seen |-> now, pending_courses |-> pending_courses]]

\* update_session that stores the dict whether or not its key is present.
update_session_store_Always(session_key) ==
    IF session_key = 0 THEN SESSION_STORE ELSE SESSION_STORE \cup {session_key}

\* The keys of the store after update_session:
\* `if session_key in SESSION_STORE: SESSION_STORE[session_key] = session_data`.
update_session_store(session_key) ==
    IF session_key \in SESSION_STORE THEN SESSION_STORE \cup {session_key}
    ELSE SESSION_STORE

\* --------------------------------------------------------- websocket_handler
\* The handler leaves its loop (break, or an exception that reaches the
\* `finally` block) and the connection is closed.
Leave(c) == NoHandler

\* The iteration took its message from the queue; a handler that leaves the
\* loop abandons what is still queued.
Take(c) == inbox' = [inbox EXCEPT ![c] = IF @ > 0 THEN @ - 1 ELSE 0]
Drop(c) == inbox' = [inbox EXCEPT ![c] = 0]

\* json.loads raised JSONDecodeError: reply and continue.
RecvInvalidJson(c, m) ==
    /\ m.shape = "text"
    /\ out' = Sent(c, Error("Invalid JSON payload."))
    /\ Take(c)
    /\ accesses' = <<>>
    /\ UNCHANGED <<tools, run, env, now, SESSION_STORE, sess, minted, conn, AGENT_CACHE, auto, stats>>

\* json.loads raised something that is not a JSONDecodeError (a binary frame
\* that is not UTF-8 gives UnicodeDecodeError, text nested too deep gives
\* RecursionError): nothing in the handler catches it, the `finally` block
\* stores the session and the handler ends.
RecvUndecodable(c, m) ==
    /\ m.shape = "bytes"
    /\ conn' = [conn EXCEPT ![c] = Leave(c)]
    /\ SESSION_STORE' = update_session_store(conn[c].session_key)
    /\ sess' = Reachable(update_session(conn[c].session_key, conn[c].pending_courses),
                         SESSION_STORE', conn')
    /\ out' = Silent(c)
    /\ Drop(c)
    /\ accesses' = StoreAccesses(conn[c].session_key)
    /\ UNCHANGED <<tools, run, env, now, minted, AGENT_CACHE, auto, stats>>

\* Not authenticated, and the payload is not a dict: payload.get raises
\* AttributeError, which nothing in the handler catches.
RecvUnauthValue(c, m) ==
    /\ m.shape = "value"
    /\ ~conn[c].authenticated
    /\ conn' = [conn EXCEPT ![c] = Leave(c)]
    /\ out' = Silent(c)
    /\ Drop(c)
    /\ accesses' = <<>>
    /\ UNCHANGED <<tools, run, env, now, SESSION_STORE, sess, minted, AGENT_CACHE, auto, stats>>

\* RecvUnauthOther with `continue` where the code has `break`.
RecvUnauthOther_Continue(c, m) ==
    /\ m.shape = "object"
    /\ ~conn[c].authenticated
    /\ m.type # Str("auth")
    /\ out' = Sent(c, Error("Authentication required."))
    /\ Take(c)
    /\ accesses' = <<>>
    /\ UNCHANGED <<tools, run, env, now, SESSION_STORE, sess, minted, conn, AGENT_CACHE, auto, stats>>

\* Not authenticated, and payload.get("type") != "auth".
RecvUnauthOther(c, m) ==
    /\ m.shape = "object"
    /\ ~conn[c].authenticated
    /\ m.type # Str("auth")
    /\ conn' = [conn EXCEPT ![c] = Leave(c)]
    /\ out' = Sent(c, Error("Authentication required."))
    /\ Drop(c)
    /\ accesses' = <<>>
    /\ UNCHANGED <<tools, run, env, now, SESSION_STORE, sess, minted, AGENT_CACHE, auto, stats>>

\* requested_session_key that is dropped when the password and TOTP code of
\* the message are valid.
requested_session_key_PasswordFirst(m) ==
    IF authenticate_payload(m).ok THEN 0
    ELSE IF m.session_key > 0 THEN m.session_key ELSE 0

\* requested_session_key: the session_key of the message stripped, when it is
\* a string; None (0) when it is absent, not a string or blank (a value
\* below 1 in the message).
requested_session_key(m) == IF m.session_key > 0 THEN m.session_key ELSE 0

\* Not authenticated, type "auth", a non-blank session_key: get_session.
RecvAuthKey(c, m) ==
    /\ m.shape = "object"
    /\ ~conn[c].authenticated
    /\ m.type = Str("auth")
    /\ requested_session_key(m) # 0
    /\ SESSION_STORE' = prune_sessions
    /\ IF m.session_key \in prune_sessions
       THEN /\ conn' = [conn EXCEPT ![c] =
                   [@ EXCEPT !.authenticated = TRUE,
                             !.session_key = m.session_key,
                             !.pending_courses = sess[m.session_key].pending_courses,
                             !.origin = IF sess[m.session_key].pending_courses.some
                                        THEN "session" ELSE "none"]]
            /\ sess' = Reachable([sess EXCEPT ![m.session_key].last_seen = now],
                                 SESSION_STORE', conn')
            /\ out' = Sent(c, AuthenticatedReply(m.session_key))
            /\ Take(c)
       ELSE /\ conn' = [conn EXCEPT ![c] = Leave(c)]
            /\ sess' = Reachable(sess, SESSION_STORE', conn')
            /\ out' = Sent(c, Error("Invalid or expired session_key."))
            /\ Drop(c)
    /\ accesses' = get_session_accesses(m.session_key \in prune_sessions)
    /\ UNCHANGED <<tools, run, env, now, minted, AGENT_CACHE, auto, stats>>

\* RecvAuthPassword that does not look at `authenticated`.
RecvAuthPassword_Again(c, m) ==
    /\ m.shape = "object"
    /\ m.type = Str("auth")
    /\ requested_session_key(m) = 0
    /\ IF authenticate_payload(m).ok
       THEN /\ minted < MaxKeys
            /\ minted' = minted + 1
            /\ SESSION_STORE' = prune_sessions \cup {NewSessionKey}
            /\ conn' = [conn EXCEPT ![c] =
                   [@ EXCEPT !.authenticated = TRUE,
                             !.session_key = NewSessionKey,
                             !.pending_courses = NoCourses,
                             !.origin = "none"]]
            /\ sess' = Reachable([sess EXCEPT ![NewSessionKey] =
                                     [last_seen |-> now, pending_courses |-> NoCourses]],
                                 SESSION_STORE', conn')
            /\ out' = Sent(c, AuthenticatedReply(NewSessionKey))
            /\ Take(c)
       ELSE /\ conn' = [conn EXCEPT ![c] = Leave(c)]
            /\ out' = Sent(c, Error(authenticate_payload(m).error))
            /\ Drop(c)
            /\ UNCHANGED <<SESSION_STORE, sess, minted>>
    /\ accesses' = (IF authenticate_payload(m).ok THEN create_session_accesses ELSE <<>>)
    /\ UNCHANGED <<tools, run, env, now, AGENT_CACHE, auto, stats>>

\* Not authenticated, type "auth", no usable session_key:
\* authenticate_payload, then create_session.
RecvAuthPassword(c, m) ==
    /\ m.shape = "object"
    /\ ~conn[c].authenticated
    /\ m.type = Str("auth")
    /\ requested_session_key(m) = 0
    /\ IF authenticate_payload(m).ok
       THEN /\ minted < MaxKeys
            /\ minted' = minted + 1
            /\ SESSION_STORE' = prune_sessions \cup {NewSessionKey}
            /\ conn' = [conn EXCEPT ![c] =
                   [@ EXCEPT !.authenticated = TRUE,
                             !.session_key = NewSessionKey,
                             !.pending_courses = NoCourses,
                             !.origin = "none"]]
            /\ sess' = Reachable([sess EXCEPT ![NewSessionKey] =
                                     [last_seen |-> now, pending_courses |-> NoCourses]],
                                 SESSION_STORE', conn')
            /\ out' = Sent(c, AuthenticatedReply(NewSessionKey))
            /\ Take(c)
       ELSE /\ conn' = [conn EXCEPT ![c] = Leave(c)]
            /\ out' = Sent(c, Error(authenticate_payload(m).error))
            /\ Drop(c)
            /\ UNCHANGED <<SESSION_STORE, sess, minted>>
    /\ accesses' = (IF authenticate_payload(m).ok THEN create_session_accesses ELSE <<>>)
    /\ UNCHANGED <<tools, run, env, now, AGENT_CACHE, auto, stats>>

\* A routed iteration ends: send the response, then store pending_courses in
\* the session and update_session.
Respond(c, reply, pending_courses, origin) ==
    /\ conn' = [conn EXCEPT ![c] =
           [@ EXCEPT !.pc = "idle", !.pending_courses = pending_courses,
                     !.origin = IF pending_courses.some THEN origin ELSE "none",
                     !.job = NoJob]]
    /\ sess' = update_session(conn[c].session_key, pending_courses)
    /\ SESSION_STORE' = update_session_store(conn[c].session_key)
    /\ accesses' = StoreAccesses(conn[c].session_key)
    /\ out' = Sent(c, reply)

\* message.get("type") or "chat"
MessageType(m) == IF ~m.type.some \/ m.type = Str("") THEN "chat" ELSE m.type.text

\* QueryOk without the strip().
QueryOk_NoStrip(q) == q.some /\ q.isstr /\ q.text # ""

\* isinstance(query, str) and query.strip()
QueryOk(q) == q.some /\ q.isstr /\ q.text \notin {"", "  "}

\* Authenticated, and the payload is not a dict: message.get raises inside
\* handle_message and the handler's `except Exception` answers.
RecvRoutedValue(c, m) ==
    /\ m.shape = "value"
    /\ conn[c].authenticated
    /\ Respond(c, Error("'list' object has no attribute 'get'"), NoCourses, "none")
    /\ Take(c)
    /\ UNCHANGED <<tools, run, env, now, minted, AGENT_CACHE, auto, stats>>

\* build_agent that constructs an agent whether or not one is cached.
build_agent_Rebuild(built) ==
    IF built THEN [agent |-> AGENT_CACHE + 1, cache |-> AGENT_CACHE + 1]
    ELSE [agent |-> 0, cache |-> AGENT_CACHE]

\* build_agent: the cached instance; or, none being cached, the instance
\* AGENT.build returns (instance 1), which is cached; or an exception
\* (agent 0), the cache left empty.  It has no await: it runs in one piece.
build_agent(built) ==
    IF AGENT_CACHE # 0 THEN [agent |-> AGENT_CACHE, cache |-> AGENT_CACHE]
    ELSE IF built THEN [agent |-> 1, cache |-> 1]
    ELSE [agent |-> 0, cache |-> 0]

\* handle_agent_query up to its await of agent.run.  `built` is whether
\* build_agent can construct the agent when none is cached.
RecvChat(c, m, built) ==
    /\ m.shape = "object"
    /\ conn[c].authenticated
    /\ MessageType(m) \in {"chat", "query"}
    /\ Take(c)
    /\ AGENT_CACHE' = build_agent(built).cache
    /\ IF build_agent(built).agent = 0
       THEN Respond(c, Error("build_agent failed"), NoCourses, "none")
       ELSE IF QueryOk(m.query)
               THEN /\ conn' = [conn EXCEPT ![c] =
                          [@ EXCEPT !.pc = "agent",
                                    !.job = [NoJob EXCEPT !.query = m.query.text,
                                                          !.agent = build_agent(built).agent]]]
                    /\ out' = Silent(c)
                    /\ accesses' = <<>>
                    /\ UNCHANGED <<sess, SESSION_STORE>>
               ELSE Respond(c, Error("Payload must include a non-empty 'query' field."),
                            conn[c].pending_courses, conn[c].origin)
    /\ UNCHANGED <<tools, run, env, now, minted, auto, stats>>

\* handle_download_request up to its first await.
RecvDownload(c, m) ==
    /\ m.shape = "object"
    /\ conn[c].authenticated
    /\ MessageType(m) = "download"
    /\ Take(c)
    /\ LET d == DownloadDecision(m, conn[c].pending_courses) IN
       CASE d.kind = "error" ->
              /\ Respond(c, d.reply, conn[c].pending_courses, conn[c].origin)
              /\ UNCHANGED <<auto, stats>>
         [] d.kind = "catalog" ->
              /\ conn' = [conn EXCEPT ![c].pc = "catalog"]
              /\ out' = Silent(c)
              /\ accesses' = <<>>
              /\ UNCHANGED <<sess, SESSION_STORE, auto, stats>>
         [] d.kind = "run" ->
              /\ stats' = 0
              /\ auto' = configure_automation(d.course_ids, d.auto_confirm)
              /\ conn' = [conn EXCEPT ![c] =
                     [@ EXCEPT !.pc = "download",
                               !.job = [NoJob EXCEPT !.course_ids = d.course_ids,
                                                     !.auto_confirm = d.auto_confirm,
                                                     !.skip_download = d.skip_download,
                                                     !.by_index = m.course_indices.some]]]
              /\ out' = Silent(c)
              /\ accesses' = <<>>
              /\ UNCHANGED <<sess, SESSION_STORE>>
    /\ UNCHANGED <<tools, run, env, now, minted, AGENT_CACHE>>

RecvUnsupported(c, m) ==
    /\ m.shape = "object"
    /\ conn[c].authenticated
    /\ MessageType(m) \notin {"chat", "query", "download"}
    /\ Take(c)
    /\ Respond(c, Error("Unsupported message type: " \o MessageType(m)),
               conn[c].pending_courses, conn[c].origin)
    /\ UNCHANGED <<tools, run, env, now, minted, AGENT_CACHE, auto, stats>>

\* One iteration of `async for raw_message in websocket` on message m, up to
\* the point where the handler next suspends.
Iteration(c, m, built) ==
    \/ RecvInvalidJson(c, m)
    \/ RecvUndecodable(c, m)
    \/ RecvUnauthValue(c, m)
    \/ RecvUnauthOther(c, m)
    \/ RecvAuthKey(c, m)
    \/ RecvAuthPassword(c, m)
    \/ RecvRoutedValue(c, m)
    \/ RecvChat(c, m, built)
    \/ RecvDownload(c, m)
    \/ RecvUnsupported(c, m)

\* The handler, waiting at the head of its loop, takes the oldest queued
\* message.
Recv(c, m, built) ==
    /\ conn[c].pc = "idle"
    /\ inbox[c] > 0
    /\ Iteration(c, m, built)

\* A message arrives while the handler waits at the head of its loop with
\* nothing queued, and is taken at once.
Deliver(c, m, built) ==
    /\ conn[c].pc = "idle"
    /\ inbox[c] = 0
    /\ Iteration(c, m, built)

\* AgentDone in which an exception of agent.run ends the handler.
AgentDone_Unhandled(c, ok) ==
    /\ conn[c].pc = "agent"
    /\ IF ok
       THEN Respond(c, [NoReply EXCEPT !.answer = conn[c].job.query],
                    conn[c].pending_courses, conn[c].origin)
       ELSE /\ conn' = [conn EXCEPT ![c] = Leave(c)]
            /\ SESSION_STORE' = update_session_store(conn[c].session_key)
            /\ sess' = Reachable(update_session(conn[c].session_key, conn[c].pending_courses),
                                 SESSION_STORE', conn')
            /\ accesses' = StoreAccesses(conn[c].session_key)
            /\ out' = Silent(c)
    /\ UNCHANGED <<tools, run, env, now, minted, inbox, AGENT_CACHE, auto, stats>>

\* agent.run returns (ok) or raises.
AgentDone(c, ok) ==
    /\ conn[c].pc = "agent"
    /\ IF ok
       THEN Respond(c, [NoReply EXCEPT !.answer = conn[c].job.query],
                    conn[c].pending_courses, conn[c].origin)
       ELSE Respond(c, Error("agent.run raised"), NoCourses, "none")
    /\ UNCHANGED <<tools, run, env, now, minted, inbox, AGENT_CACHE, auto, stats>>

\* fetch_course_catalog returns `courses` (ok) or raises.
CatalogDone(c, courses, ok) ==
    /\ conn[c].pc = "catalog"
    /\ IF ok
       THEN Respond(c, [NoReply EXCEPT !.status = "course_list",
                                       !.courses = CourseListing(courses)],
                    SomeCourses(courses), "fetched")
       ELSE Respond(c, Error("Failed to fetch courses"),
                    conn[c].pending_courses, conn[c].origin)
    /\ UNCHANGED <<tools, run, env, now, minted, inbox, AGENT_CACHE, auto, stats>>

\* What the operator may type at the downloader's console prompts when the
\* automation globals are off: any selection of the listed courses.
Prefixes(courses) == {SubSeq(courses, 1, n) : n \in 0..Len(courses)}

\* file_index_downloader.main after get_courses returned `courses`:
\* select_courses and the confirmation read the automation globals.
DownloadSelect(c, courses, typed) ==
    /\ conn[c].pc = "download"
    /\ ~conn[c].job.skip_download
    /\ typed \in Prefixes(courses)
    /\ conn' = [conn EXCEPT ![c] =
           [@ EXCEPT !.pc = "processing",
                     !.job.selected =
                         IF ~auto.AUTO_MODE THEN typed
                         ELSE IF ~auto.AUTO_CONFIRM THEN <<>>
                         ELSE select_courses(courses)]]
    /\ out' = Silent(c)
    /\ accesses' = <<>>
    /\ UNCHANGED <<tools, run, env, now, SESSION_STORE, sess, minted, inbox, AGENT_CACHE, auto, stats>>

\* DownloadDone that returns the catalog it was given with the "completed"
\* reply.
DownloadDone_KeepCatalog(c, ok) ==
    /\ \/ conn[c].pc = "processing"
       \/ conn[c].pc = "download" /\ (conn[c].job.skip_download \/ ~ok)
    /\ auto' = clear_automation
    /\ stats' = stats + Len(conn[c].job.selected)
    /\ IF ok
       THEN Respond(c, [NoReply EXCEPT !.status = "completed", !.stats = stats'],
                    conn[c].pending_courses, conn[c].origin)
       ELSE Respond(c, Error("downloader raised"), NoCourses, "none")
    /\ UNCHANGED <<tools, run, env, now, minted, inbox, AGENT_CACHE>>

\* file_index_downloader.main returns (ok) or raises; clear_automation runs
\* in the `finally`, then the reply carries a copy of the stats.
DownloadDone(c, ok) ==
    /\ \/ conn[c].pc = "processing"
       \/ conn[c].pc = "download" /\ (conn[c].job.skip_download \/ ~ok)
    /\ auto' = clear_automation
    /\ stats' = stats + Len(conn[c].job.selected)
    /\ IF ok
       THEN Respond(c, [NoReply EXCEPT !.status = "completed", !.stats = stats'],
                    NoCourses, "none")
       ELSE Respond(c, Error("downloader raised"), NoCourses, "none")
    /\ UNCHANGED <<tools, run, env, now, minted, inbox, AGENT_CACHE>>

\* The client closes the connection after its messages were answered: the
\* `async for` ends and the `finally` block stores the session.
ClientClose(c) ==
    /\ conn[c].pc = "idle"
    /\ inbox[c] = 0
    /\ conn' = [conn EXCEPT ![c] = Leave(c)]
    /\ SESSION_STORE' = update_session_store(conn[c].session_key)
    /\ sess' = Reachable(update_session(conn[c].session_key, conn[c].pending_courses),
                         SESSION_STORE', conn')
    /\ out' = Silent(c)
    /\ accesses' = StoreAccesses(conn[c].session_key)
    /\ UNCHANGED <<tools, run, env, now, minted, inbox, AGENT_CACHE, auto, stats>>

\* ----------------------------------------------------------- specifications
\* The collaborators answer the connections of C: the model, and Canvas
\* listing the catalogs of K.
Agents(C) == \E c \in C, ok \in BOOLEAN : AgentDone(c, ok)

Downloads(C, K) ==
    \/ \E c \in C, courses \in K, ok \in BOOLEAN : CatalogDone(c, courses, ok)
    \/ \E c \in C, courses \in K, typed \in Catalogs : DownloadSelect(c, courses, typed)
    \/ \E c \in C, ok \in BOOLEAN : DownloadDone(c, ok)

Completions(C, K) == Agents(C) \/ Downloads(C, K)

\* Clients that wait for each reply before they send the next message of M.
Polite(C, M) ==
    \/ \E c \in C : ClientConnect(c)
    \/ \E c \in C : ClientClose(c)
    \/ \E c \in C, m \in M, built \in BOOLEAN : Deliver(c, m, built)

\* Clients that send without waiting for replies.
Eager(C, M) ==
    \/ \E c \in C : ClientConnect(c)
    \/ \E c \in C : ClientClose(c)
    \/ \E c \in C : ClientSend(c)
    \/ \E c \in C, m \in M, built \in BOOLEAN : Recv(c, m, built)

SomeText == [BaseMsg EXCEPT !.shape = "text"]
SomeValue == [BaseMsg EXCEPT !.shape = "value"]
SomeBytes == [BaseMsg EXCEPT !.shape = "bytes"]
Login(s) == [Typed("auth") EXCEPT !.password = Str("canvas-agent-password"),
                                  !.totp = TotpCode(s)]
Hunter == [Typed("auth") EXCEPT !.password = Str("hunter2")]
Resume(k) == [Typed("auth") EXCEPT !.session_key = k]
Ask(q) == [Typed("chat") EXCEPT !.query = q]
Pick(indices) == [Typed("download") EXCEPT !.course_indices = Ints(indices)]

\* Messages that reach every branch of the handler.
CoreMsgs ==
    {SomeText, SomeBytes, SomeValue, Typed("bogus"), Ask(Str("hi")), Typed("download"),
     Pick(<<2>>)}
    \cup {Login(s) : s \in Times}
    \cup {Resume(k) : k \in Keys}

CoreCatalogs == {CourseList, Tail(CourseList)}

DefaultEnv == {e \in Environments : e.CANVAS_WS_SESSION_TTL = TtlInt(1)}
OpenEnv == {e \in Environments : e.CANVAS_WS_SESSION_TTL = TtlInt(0)}

InitDefault == Init /\ env \in DefaultEnv
InitOpen == Init /\ env \in OpenEnv

\* One client at a time, sending eagerly, against the deployment with TOTP
\* and an idle TTL.
Next == Tick \/ Eager({1}, CoreMsgs) \/ Completions({1}, CoreCatalogs)

Spec == InitDefault /\ [][Next]_vars

\* Every connection at once, without TOTP and without expiry.
PairMsgs ==
    {Hunter, Ask(Str("hi")), Typed("download"), Pick(<<2>>)} \cup {Resume(k) : k \in Keys}

NextPair == Polite(Conns, PairMsgs) \/ Completions(Conns, CoreCatalogs)

SpecPair == InitOpen /\ [][NextPair]_vars

\* One client, every authentication message, every environment.
NextAuth ==
    Tick \/ Polite({1}, AuthMsgs \cup {SomeText, SomeBytes, SomeValue, Typed("bogus")})

SpecAuth == Init /\ [][NextAuth]_vars

\* Every connection at once, with TOTP and an idle TTL, logging in, resuming
\* and listing the catalog while time passes.
ExpiryMsgs == {Login(s) : s \in Times} \cup {Resume(k) : k \in Keys} \cup {Typed("download")}

NextExpiry ==
    \/ Tick
    \/ Polite(Conns, ExpiryMsgs)
    \/ \E c \in Conns, ok \in BOOLEAN : CatalogDone(c, CourseList, ok)

SpecExpiry == InitDefault /\ [][NextExpiry]_vars

\* Every connection at once, logging in and resuming while time passes, with
\* CANVAS_WS_SESSION_TTL set to zero and to negative numbers.
NoExpiryEnv ==
    {[e EXCEPT !.CANVAS_WS_SESSION_TTL = TtlInt(n)] : e \in OpenEnv, n \in {0, -1, -DEFAULT_TTL}}

InitNoExpiry ==
    /\ Boot
    /\ env \in NoExpiryEnv
    /\ run = IdleRun(MAX_STEPS)
    /\ tools = NoTools(Credentials, TRUE)

NextNoExpiry == Tick \/ Polite(Conns, {Hunter, Typed("bogus")} \cup {Resume(k) : k \in Keys})

SpecNoExpiry == InitNoExpiry /\ [][NextNoExpiry]_vars

\* run(query) of the agent loop, for every step maximum up to MaxSteps, with
\* a Model Client that answers each call with a final answer, with up to
\* MaxCalls tool-call requests, or with an error.  The run is scheduled
\* until it ends.
Gateway == <<env, now, SESSION_STORE, sess, minted, conn, inbox, AGENT_CACHE,
             auto, stats, out, tools, accesses>>

\* Step 1: system message, then the query as the first user message.
RunStart ==
    /\ run.state = "Idle"
    /\ run' = Loop([run EXCEPT !.messages = <<Message("system"), Message("user")>>,
                               !.step = 0])
    /\ UNCHANGED Gateway

\* Step 2b: the Model Client returns a final answer.
ModelFinalAnswer ==
    /\ run.state = "AwaitingModel"
    /\ run' = [run EXCEPT !.state = "Done", !.result = "answer",
                          !.model_calls = @ + 1]
    /\ UNCHANGED Gateway

\* Step 2c: the Model Client returns tool-call requests.
ModelToolCalls(names) ==
    /\ run.state = "AwaitingModel"
    /\ Len(names) \in 1..MaxCalls
    /\ LET requests == Requests(names, run.next_id) IN
       run' = [run EXCEPT !.state = "ExecutingTools",
                          !.requests = requests,
                          !.messages = Append(@, AssistantMessage(requests)),
                          !.next_id = @ + Len(names),
                          !.model_calls = @ + 1]
    /\ UNCHANGED Gateway

\* The Model Client raises: a terminal failure of the run, no retry.
ModelFails ==
    /\ run.state = "AwaitingModel"
    /\ run' = [run EXCEPT !.state = "Failed", !.result = "ModelError",
                          !.model_calls = @ + 1]
    /\ UNCHANGED Gateway

\* Steps 2c-2e: execute every request, append the tool-role messages,
\* increment the step counter, continue the loop.
ExecuteTools ==
    /\ run.state = "ExecutingTools"
    /\ run' = Loop([run EXCEPT !.messages = @ \o ToolMessages(run.requests),
                               !.requests = <<>>,
                               !.step = @ + 1,
                               !.rounds = @ + 1])
    /\ UNCHANGED Gateway

CallLists == UNION {[1..k -> ToolNames] : k \in 1..MaxCalls}

InitAgent ==
    /\ Boot
    /\ env \in DefaultEnv
    /\ tools = NoTools(Credentials, TRUE)
    /\ \E n \in 1..MaxSteps : run = IdleRun(n)

NextAgent ==
    \/ RunStart
    \/ ModelFinalAnswer
    \/ \E names \in CallLists : ModelToolCalls(names)
    \/ ModelFails
    \/ ExecuteTools

SpecAgent == InitAgent /\ [][NextAgent]_vars /\ WF_vars(NextAgent)

\* The tools on their own: one instance at a time is constructed, called any
\* number of times against every behaviour of Canvas, of the OpenAI client
\* and of eval, and dropped, in a process with any of the credentials set.
Process == <<env, now, SESSION_STORE, sess, minted, conn, inbox, AGENT_CACHE,
             auto, stats, out, run, accesses>>

Outcome(op, tool, raised, result) ==
    [op |-> op, tool |-> tool, raised |-> raised, result |-> result]

\* tool(): the constructor returns the instance or raises.
Construct(tool) ==
    /\ tools.instance = "none"
    /\ tools' = [tools EXCEPT
           !.instance = IF ConstructorRaises(tool, tools.environ) THEN "none" ELSE tool,
           !.last = Outcome("construct", tool, ConstructorRaises(tool, tools.environ),
                            ToolResult(PyNone, PyNone))]
    /\ UNCHANGED Process

CanvasCall(first, second) ==
    /\ tools.instance \in CanvasTools
    /\ tools' = [tools EXCEPT !.last =
           Outcome("forward", tools.instance, FALSE,
                   CanvasForward(tools.instance, first, second))]
    /\ UNCHANGED Process

VectorStoreCall(reply) ==
    /\ tools.instance \in VectorStoreTools
    /\ tools' = [tools EXCEPT !.last =
           Outcome("forward", tools.instance, FALSE,
                   VectorStoreForward(tools.instance, tools.installed,
                                      tools.environ, reply))]
    /\ UNCHANGED Process

CalculatorCall(evaluates) ==
    /\ tools.instance \in CalculatorTools
    /\ tools' = [tools EXCEPT !.last =
           Outcome("forward", tools.instance, FALSE, CalculatorForward(evaluates))]
    /\ UNCHANGED Process

\* The instance is dropped.
Discard ==
    /\ tools.instance # "none"
    /\ tools' = [tools EXCEPT !.instance = "none"]
    /\ UNCHANGED Process

InitTools ==
    /\ Boot
    /\ env \in DefaultEnv
    /\ run = IdleRun(MAX_STEPS)
    /\ \E environ \in SUBSET Credentials, installed \in BOOLEAN :
          tools = NoTools(environ, installed)

NextTools ==
    \/ \E tool \in AllTools : Construct(tool)
    \/ \E first, second \in Responses : CanvasCall(first, second)
    \/ \E reply \in Replies : VectorStoreCall(reply)
    \/ \E evaluates \in BOOLEAN : CalculatorCall(evaluates)
    \/ Discard

SpecTools == InitTools /\ [][NextTools]_vars

\* One client, every chat message between the steps of a download, the agent
\* buildable or not.
NextChat ==
    \/ Polite({1}, ChatMsgs \cup {Hunter, Ask(Str(" hi ")), Typed("download"), Pick(<<1>>)})
    \/ Completions({1}, CoreCatalogs)

SpecChat == InitOpen /\ [][NextChat]_vars

\* One client, every download message, every catalog.
NextDownload == Polite({1}, DownloadMsgs \cup {Hunter}) \/ Downloads({1}, Catalogs)

SpecDownload == InitOpen /\ [][NextDownload]_vars

\* ------------------------------------------------------------------ claims
InFlight == {"agent", "catalog", "download", "processing"}

\* Connection c's handler runs one iteration on message m.
Handled(c, m, built) == conn[c].pc = "idle" /\ Iteration(c, m, built)

\* C1. Auth gating: a connection that has not authenticated is never inside
\* the agent or the downloader, an iteration on an unauthenticated connection
\* leaves the agent cache and the downloader's globals alone, and a JSON
\* object whose type is not "auth", received while the connection is
\* unauthenticated, gets the single reply {"error": "Authentication
\* required."} after which the handler leaves its loop.
C1_AuthGating ==
    [][\A c \in Conns :
        /\ conn'[c].pc \in InFlight => conn'[c].authenticated
        /\ conn[c].pc = "idle" /\ ~conn[c].authenticated /\ out'.conn = c =>
              \A m \in Msgs, built \in BOOLEAN :
                 Handled(c, m, built) =>
                    /\ conn'[c].pc \in {"idle", "closed"}
                    /\ UNCHANGED <<AGENT_CACHE, auto, stats>>
                    /\ m.shape = "object" /\ m.type # Str("auth") =>
                          /\ out' = Sent(c, Error("Authentication required."))
                          /\ conn'[c].pc = "closed"
                          /\ ~conn'[c].authenticated]_vars

C1_Witness ==
    \E c \in Conns :
        /\ out = Sent(c, Error("Authentication required."))
        /\ conn[c].pc = "closed"
        /\ AGENT_CACHE = 0

\* C3. Session TTL expiry: with a positive TTL, an auth message presenting a
\* session key whose session has been idle (now - last_seen) for longer than
\* the TTL is answered {"error": "Invalid or expired session_key."}, the
\* handler leaves its loop and the session is gone from the store; and every
\* auth with a valid password and TOTP code that is served is answered
\* "authenticated" with a key that was never issued before, now in the store.
Issued == 1..minted

C3_SessionExpiry ==
    [][\A c \in Conns :
        conn[c].pc = "idle" /\ ~conn[c].authenticated /\ out'.conn = c =>
           \A m \in AuthMsgs \cup CoreMsgs, built \in BOOLEAN :
              Handled(c, m, built) /\ m.shape = "object" /\ m.type = Str("auth") =>
                 /\ ( /\ m.session_key \in SESSION_STORE
                      /\ SESSION_TTL_SECONDS > 0
                      /\ now - sess[m.session_key].last_seen > SESSION_TTL_SECONDS )
                    => /\ out' = Sent(c, Error("Invalid or expired session_key."))
                       /\ conn'[c].pc = "closed"
                       /\ m.session_key \notin SESSION_STORE'
                 /\ m.session_key <= 0 /\ authenticate_payload(m).ok
                    => /\ out'.sent /\ out'.body.status = "authenticated"
                       /\ out'.body.session_key \notin Issued
                       /\ out'.body.session_key \in SESSION_STORE'
                       /\ conn'[c].authenticated
                       /\ conn'[c].session_key = out'.body.session_key]_vars

\* Every key was issued, every session has expired, the last of these keys
\* to be presented was refused and its connection closed.
C3_Witness ==
    \E c \in Conns :
        /\ minted = MaxKeys
        /\ SESSION_STORE = {}
        /\ out = Sent(c, Error("Invalid or expired session_key."))
        /\ conn[c].pc = "closed"

\* C4. Password authentication (an auth message with no usable session_key)
\* succeeds -- a session that was never issued before is in the store, its
\* key is returned with status "authenticated" and the connection is
\* authenticated and bound to it -- exactly when a secret is configured (an
\* empty secret is "not configured"), the password equals it, and TOTP is
\* disabled or the code is the one of the current time step or of the step
\* before or after it; otherwise one error reply is sent, the store is
\* unchanged, no key is issued and the handler leaves its loop.
ValidCode(t) ==
    /\ t.isstr /\ ~t.blank
    /\ TOTP_SECRET.set /\ TOTP_SECRET.text # ""
    /\ t.code \in {now - 1, now, now + 1}

Accepted(m) ==
    /\ AUTH_PASSWORD # ""
    /\ m.password = Str(AUTH_PASSWORD)
    /\ TOTP_DISABLED \/ ValidCode(m.totp)

WellFormedIds(m) ==
    ~m.course_ids.some \/ (m.course_ids.islist /\ AllInts(m.course_ids.items))

IndexRequest(m) ==
    /\ m.shape = "object" /\ MessageType(m) = "download"
    /\ m.course_indices.some /\ m.course_indices.islist
    /\ AllInts(m.course_indices.items) /\ m.course_indices.items # <<>>
    /\ WellFormedIds(m)

Listed(cat, indices) == {cat[indices[i]] : i \in DOMAIN indices}

C5_IndexResolution ==
    [][\A c \in Conns :
        out'.conn = c =>
          /\ conn[c].pc = "catalog" /\ out'.body.status = "course_list" =>
                LET cat == conn'[c].pending_courses.courses IN
                /\ conn'[c].pending_courses.some
                /\ DOMAIN out'.body.courses = 1..Len(cat)
                /\ \A i \in 1..Len(cat) :
                      out'.body.courses[i] = [index |-> i, id |-> cat[i]]
          /\ conn[c].pc = "idle" /\ conn[c].authenticated /\ conn[c].pending_courses.some =>
                \A m \in DownloadMsgs :
                   Handled(c, m, TRUE) /\ IndexRequest(m) =>
                      LET cat == conn[c].pending_courses.courses
                          indices == Values(m.course_indices.items)
                          ids == conn'[c].job.course_ids
                      IN
                      IF \A i \in DOMAIN indices : indices[i] \in 1..Len(cat)
                      THEN m.auto_confirm.isbool =>
                              /\ conn'[c].pc = "download"
                              /\ Range(ids) = Listed(cat, indices)
                              /\ Len(ids) = Cardinality(Range(indices))
                              /\ ids[1] = cat[indices[1]]
                              /\ auto'.AUTO_MODE /\ ~auto'.AUTO_ALL
                              /\ auto'.AUTO_SELECTED_COURSE_IDS = Listed(cat, indices)
                      ELSE /\ out'.sent
                           /\ out'.body.error = "course_indices out of range"
                           /\ Range(out'.body.invalid) =
                                 {x \in Range(indices) : x \notin 1..Len(cat)}
                           /\ conn'[c].pc = "idle"
                           /\ UNCHANGED <<auto, stats>>
                           /\ conn'[c].pending_courses = conn[c].pending_courses
                           /\ sess'[conn[c].session_key].pending_courses
                                 = conn[c].pending_courses]_vars

\* The downloader runs for the second course of a catalog of two or more,
\* picked by index 2.
C5_Witness ==
    \E c \in Conns :
        /\ conn[c].pc = "download"
        /\ conn[c].job.by_index
        /\ Len(conn[c].pending_courses.courses) >= 2
        /\ conn[c].job.course_ids = <<conn[c].pending_courses.courses[2]>>
        /\ auto.AUTO_SELECTED_COURSE_IDS = {conn[c].pending_courses.courses[2]}

\* C6. A download request carrying course_indices, handled while the
\* handler's pending_courses is None, is answered with an error, leaves the
\* handler idle and does not touch the downloader.
C6_NoCatalogNoIndices ==
    [][\A c \in Conns :
        ( /\ conn[c].pc = "idle" /\ conn[c].authenticated
          /\ ~conn[c].pending_courses.some /\ out'.conn = c ) =>
           \A m \in DownloadMsgs :
              ( /\ Handled(c, m, TRUE) /\ m.shape = "object"
                /\ MessageType(m) = "download" /\ m.course_indices.some ) =>
                 /\ out'.sent /\ IsError(out'.body)
                 /\ conn'[c].pc = "idle"
                 /\ ~conn'[c].pending_courses.some
                 /\ UNCHANGED <<auto, stats>>]_vars

\* Indices were refused while the handler held no catalog.
C6_Witness ==
    \E c \in Conns :
        /\ out = Sent(c, Error("Course list not initialized. Request the course list first."))
        /\ conn[c].pc = "idle"
        /\ ~conn[c].pending_courses.some
        /\ auto = AutoOff

\* C7. Session resumption.  When an authenticated handler ends, the catalog
\* it holds is stored in its session; while no handler is bound to a stored
\* session its catalog does not change; a connection that authenticates with
\* a session_key that is in the store and unexpired (no password or TOTP
\* looked at) is authenticated with that key, holds the session's catalog and
\* is idle, no catalog fetch started.  Indices sent next are resolved against
\* the catalog the handler holds (C5).
Bound(k) == \E c \in Conns : conn[c].session_key = k

C7_SessionResumption ==
    [][/\ \A c \in Conns :
            /\ ( /\ conn[c].authenticated /\ conn'[c].pc = "closed"
                 /\ conn[c].session_key \in SESSION_STORE' ) =>
                    sess'[conn[c].session_key].pending_courses = conn[c].pending_courses
            /\ ( /\ conn[c].pc = "idle" /\ ~conn[c].authenticated /\ out'.conn = c ) =>
                    \A m \in Msgs, built \in BOOLEAN :
                       ( /\ Handled(c, m, built) /\ m.shape = "object"
                         /\ m.type = Str("auth")
                         /\ m.session_key \in SESSION_STORE \ Expired(now) ) =>
                          /\ out' = Sent(c, AuthenticatedReply(m.session_key))
                          /\ conn'[c].authenticated
                          /\ conn'[c].pc = "idle"
                          /\ conn'[c].session_key = m.session_key
                          /\ conn'[c].pending_courses = sess[m.session_key].pending_courses
      /\ \A k \in Keys :
            ~Bound(k) /\ k \in SESSION_STORE /\ k \in SESSION_STORE' =>
               sess'[k].pending_courses = sess[k].pending_courses]_vars

\* A connection that resumed a session runs the downloader for a course
\* picked by index from the catalog the session kept.
C7_Witness ==
    \E c \in Conns :
        /\ conn[c].pc = "download"
        /\ conn[c].job.by_index
        /\ conn[c].origin = "session"
        /\ conn[c].pending_courses.some
        /\ conn[c].job.course_ids # <<>>
        /\ \A i \in DOMAIN conn[c].job.course_ids :
              conn[c].job.course_ids[i] \in Range(conn[c].pending_courses.courses)

\* C8. Session privacy.  A password login binds its connection to a key that
\* no stored session and no other connection has; the catalog of a stored
\* session changes only in a step of a handler bound to that session's key;
\* the catalog a handler holds changes only in that handler's own steps, and
\* what a handler takes from the store when it resumes is the catalog of the
\* key it presented.
C8_SessionPrivacy ==
    [][/\ \A k \in Keys :
            ( /\ k \in SESSION_STORE /\ k \in SESSION_STORE'
              /\ sess'[k].pending_courses # sess[k].pending_courses ) =>
                /\ out'.conn \in Conns
                /\ conn[out'.conn].session_key = k
      /\ \A c \in Conns :
            /\ conn'[c].pending_courses # conn[c].pending_courses => out'.conn = c
            /\ ( /\ ~conn[c].authenticated /\ conn'[c].authenticated ) =>
                  /\ out' = Sent(c, AuthenticatedReply(conn'[c].session_key))
                  /\ IF conn'[c].session_key \in SESSION_STORE
                     THEN conn'[c].pending_courses
                             = sess[conn'[c].session_key].pending_courses
                     ELSE /\ ~conn'[c].pending_courses.some
                          /\ ~Bound(conn'[c].session_key)]_vars

\* Two sessions with distinct keys are active at once, one holding a catalog
\* and the other holding none.
C8_Witness ==
    \E c, d \in Conns :
        /\ conn[c].authenticated /\ conn[d].authenticated
        /\ conn[c].pc # "closed" /\ conn[d].pc # "closed"
        /\ conn[c].session_key # conn[d].session_key
        /\ {conn[c].session_key, conn[d].session_key} \subseteq SESSION_STORE
        /\ sess[conn[c].session_key].pending_courses.some
        /\ ~sess[conn[d].session_key].pending_courses.some

\* C9. In-order processing, one reply per message: a handler takes a message
\* from its connection only when it is not busy with an earlier one; the
\* iteration that takes a message either sends a reply to that connection or
\* starts work that is still in flight; work in flight ends by sending the
\* reply.
C9_OneReplyPerMessage ==
    [][\A c \in Conns :
        /\ inbox'[c] < inbox[c] =>
              /\ conn[c].pc = "idle"
              /\ out'.conn = c
              /\ out'.sent \/ conn'[c].pc \in InFlight
        /\ conn[c].pc \in InFlight /\ conn'[c].pc \notin InFlight =>
              /\ out' = Sent(c, out'.body)
              /\ conn'[c].pc = "idle"]_vars

\* C9 for the messages json.loads can answer for (JSON, or a JSONDecodeError)
\* that are JSON objects if sent before authentication.
C9_RepliesExceptBareValues ==
    [][\A c \in Conns :
        /\ inbox'[c] < inbox[c] =>
              /\ conn[c].pc = "idle"
              /\ out'.conn = c
              /\ out'.sent \/ conn'[c].pc \in InFlight
                    \/ (~conn[c].authenticated /\ RecvUnauthValue(c, SomeValue))
                    \/ RecvUndecodable(c, SomeBytes)
        /\ conn[c].pc \in InFlight /\ conn'[c].pc \notin InFlight =>
              /\ out' = Sent(c, out'.body)
              /\ conn'[c].pc = "idle"]_vars

\* C2. Step-bound termination: the step counter never exceeds the configured
\* maximum N; every run ends; a run that has ended and in which every model
\* call returned tool-call requests made exactly N model calls and N rounds of
\* tool calls and ended in StepLimitExceeded.
C2_StepBound ==
    /\ [](run.step <= run.max_steps)
    /\ []( /\ run.state \in Terminal
           /\ run.rounds = run.model_calls
           => /\ run.state = "StepLimitExceeded"
              /\ run.result = "StepLimitExceeded"
              /\ run.rounds = run.max_steps
              /\ run.step = run.max_steps )
    /\ [](run.state = "StepLimitExceeded" => run.rounds = run.max_steps)
    /\ <>(run.state \in Terminal)

\* A run with a maximum of two or more steps ended in StepLimitExceeded after
\* the model asked for tools on every turn.
C2_Witness ==
    /\ run.state = "StepLimitExceeded"
    /\ run.max_steps >= 2
    /\ run.model_calls = run.max_steps
    /\ run.rounds = run.max_steps

\* C10. Tool-call/result correlation: whenever the run is about to call the
\* model, or has ended, every assistant message asking for k tool calls is
\* followed directly by exactly k tool-role messages, the i-th carrying the
\* id of the i-th request, and every tool-role message is one of those.
Answers(p) ==
    LET msgs == run.messages
        k == Len(msgs[p].tool_calls)
    IN
    /\ p + k <= Len(msgs)
    /\ \A i \in 1..k :
          /\ msgs[p + i].role = "tool"
          /\ msgs[p + i].tool_call_id = msgs[p].tool_calls[i].id
    /\ p + k < Len(msgs) => msgs[p + k + 1].role # "tool"

C10_ToolCorrelation ==
    run.state \in {"AwaitingModel"} \cup Terminal =>
        LET msgs == run.messages IN
        /\ \A p \in DOMAIN msgs : msgs[p].role = "assistant" => Answers(p)
        /\ \A q \in DOMAIN msgs :
              msgs[q].role = "tool" =>
                 /\ \E p \in 1..(q - 1) :
                       /\ msgs[p].role = "assistant"
                       /\ q - p <= Len(msgs[p].tool_calls)
                 /\ \A j \in DOMAIN msgs :
                       msgs[j].role = "tool" /\ msgs[j].tool_call_id = msgs[q].tool_call_id
                       => j = q

\* The model is about to be called again after a round of two requests, one
\* for an unregistered tool and one for a registered one.
C10_Witness ==
    /\ run.state = "AwaitingModel"
    /\ \E p \in DOMAIN run.messages :
          /\ Len(run.messages[p].tool_calls) = 2
          /\ run.messages[p].tool_calls[1].name = "missing"
          /\ run.messages[p].tool_calls[2].name = "search"
          /\ run.messages[p + 1].result.error = "unknown tool missing"
          /\ run.messages[p + 2].result.output # ""

\* C11. A failing tool call never aborts a run: a round of tool calls ends
\* with one tool-role message per request; a request for an unregistered
\* tool is answered with an error naming the tool, a request whose forward
\* raises with an error, every other request with its own output; the run
\* then goes on to the next model turn, or to StepLimitExceeded when the step
\* maximum is reached, never to Failed.
C11_ToolFailureIsolated ==
    [][run.state = "ExecutingTools" =>
        LET requests == run.requests
            base == Len(run.messages)
        IN
        /\ run'.state = IF run.step + 1 < run.max_steps
                        THEN "AwaitingModel" ELSE "StepLimitExceeded"
        /\ Len(run'.messages) = base + Len(requests)
        /\ \A i \in DOMAIN requests :
              LET answer == run'.messages[base + i] IN
              /\ answer.role = "tool"
              /\ answer.tool_call_id = requests[i].id
              /\ IF requests[i].name \notin Registered
                 THEN answer.result = Failure("unknown tool " \o requests[i].name)
                 ELSE IF requests[i].name = "flaky"
                 THEN answer.result.error # "" /\ answer.result.output = ""
                 ELSE answer.result = Output("found")]_vars

\* After a round whose first tool raised and whose second tool succeeded the
\* model is about to be called again.
C11_Witness ==
    /\ run.state = "AwaitingModel"
    /\ \E p \in DOMAIN run.messages :
          /\ Len(run.messages[p].tool_calls) = 2
          /\ run.messages[p].tool_calls[1].name = "flaky"
          /\ run.messages[p].tool_calls[2].name = "search"
          /\ run.messages[p + 1].result.error # ""
          /\ run.messages[p + 2].result = Output("found")

\* C12. Every ToolResult returned by a tool's forward has exactly one of
\* output and error populated.
Populated(value) == ~value.null

C12_OutputXorError ==
    tools.last.op = "forward" =>
        Populated(tools.last.result.output) # Populated(tools.last.result.error)

\* C12 for every behaviour of Canvas except a 200 whose JSON object has an
\* "error" member that is null.
C12_ExceptNullErrorMember ==
    [][( \/ \E first, second \in Responses \ {"200 error null"} : CanvasCall(first, second)
         \/ \E reply \in Replies : VectorStoreCall(reply)
         \/ \E evaluates \in BOOLEAN : CalculatorCall(evaluates) ) =>
           Populated(tools'.last.result.output) # Populated(tools'.last.result.error)]_vars

\* C17. For every tool, construction fails when the credential it needs is
\* missing, and no constructed tool's forward reports a missing credential.
RequiredCredential(tool) ==
    IF tool \in CanvasTools THEN {"CANVAS_ACCESS_TOKEN"}
    ELSE IF tool \in VectorStoreTools THEN {"OPENAI_API_KEY"}
    ELSE {}

MissingCredentialReport == PyStr("OPENAI_API_KEY not configured")

FailsFast(family) ==
    tools.last.tool \in family =>
        /\ ( /\ tools.last.op = "construct"
             /\ ~(RequiredCredential(tools.last.tool) \subseteq tools.environ) )
              => tools.last.raised /\ tools.instance = "none"
        /\ tools.last.op = "forward" => tools.last.result.error # MissingCredentialReport

C17_CredentialsAtConstruction == FailsFast(AllTools)

\* C17 for the Canvas tools and the calculator.
C17_CanvasToolsFailFast == FailsFast(CanvasTools \cup CalculatorTools)

\* C13 as stated: a chat or query message (type absent included) whose query
\* is missing, not a string, empty or blank is answered with an error without
\* agent.run; every other one starts agent.run with the query as sent, and
\* the result of the run is the answer.
Blank(q) == ~q.some \/ ~q.isstr \/ q.text \in {"", "  "}

ChatHandled(c, agent_built) ==
    \A m \in ChatMsgs \cup {Ask(Str(" hi "))}, built \in BOOLEAN :
       Handled(c, m, built) =>
          IF Blank(m.query) \/ ~(agent_built \/ built \/ AGENT_CACHE # 0)
          THEN /\ out'.sent /\ IsError(out'.body)
               /\ conn'[c].pc = "idle"
          ELSE /\ conn'[c].pc = "agent"
               /\ conn'[c].job.query = m.query.text
               /\ ~out'.sent

RunAnswered(c) ==
    conn[c].pc = "agent" /\ conn'[c].pc # "agent" =>
       /\ conn'[c].pc = "idle"
       /\ out'.conn = c /\ out'.sent
       /\ IsError(out'.body) \/ out'.body = [NoReply EXCEPT !.answer = conn[c].job.query]

C13_AsStated ==
    [][\A c \in Conns :
        /\ conn[c].pc = "idle" /\ conn[c].authenticated /\ out'.conn = c
              => ChatHandled(c, TRUE)
        /\ RunAnswered(c)]_vars

\* C13, amended: build_agent runs before the query is looked at; when it
\* raises, any chat message, whatever its query, is answered with an error
\* and agent.run is not invoked.  When it returns an agent the statement is
\* as above.
C13_QueryValidation ==
    [][\A c \in Conns :
        /\ conn[c].pc = "idle" /\ conn[c].authenticated /\ out'.conn = c
              => ChatHandled(c, FALSE)
        /\ RunAnswered(c)]_vars

\* A query with surrounding blanks came back as the answer, blanks included.
C13_Witness ==
    \E c \in Conns :
        /\ out = Sent(c, [NoReply EXCEPT !.answer = " hi "])
        /\ conn[c].pc = "idle"

\* C14. A message that is not valid JSON, taken by the handler at any point
\* of a connection, is answered with one error reply and changes nothing
\* else: the handler stays in its loop with its authentication status, its
\* session binding and its pending catalog, and the session store is as it
\* was.
Recovered(c, shapes) ==
    \A m \in Msgs, built \in BOOLEAN :
       m.shape \in shapes /\ Recv(c, m, built) =>
          /\ out'.sent /\ IsError(out'.body)
          /\ conn' = conn
          /\ SESSION_STORE' = SESSION_STORE
          /\ sess' = sess

C14_InvalidJsonRecovered ==
    [][\A c \in Conns : out'.conn = c => Recovered(c, {"text", "bytes"})]_vars

\* C14 for the messages on which json.loads raises JSONDecodeError.
C14_DecodeErrorRecovered ==
    [][\A c \in Conns : out'.conn = c => Recovered(c, {"text"})]_vars

\* C15. A message that is valid JSON but not an object, taken on any
\* connection, authenticated or not, is answered with an error reply and the
\* handler stays in its loop.
WrongShapeRecovered(c) ==
    \A m \in Msgs, built \in BOOLEAN :
       m.shape = "value" /\ Recv(c, m, built) =>
          /\ out'.sent /\ IsError(out'.body)
          /\ conn'[c].pc = "idle"
          /\ conn'[c].authenticated = conn[c].authenticated

C15_WrongShapeRecovered ==
    [][\A c \in Conns : out'.conn = c => WrongShapeRecovered(c)]_vars

\* C15 on authenticated connections.
C15_RoutedWrongShapeRecovered ==
    [][\A c \in Conns :
          out'.conn = c /\ conn[c].authenticated => WrongShapeRecovered(c)]_vars

\* C16. An exception raised while a routed message is processed (build_agent
\* raising, agent.run raising, the downloader raising, a payload that is not
\* an object) is answered with an error reply, and the handler stays in its
\* loop, authenticated and bound to the same session.
Raises(c) ==
    \/ conn[c].pc = "agent" /\ conn'[c].pc # "agent"
          /\ out'.body # [NoReply EXCEPT !.answer = conn[c].job.query]
    \/ conn[c].pc \in {"download", "processing"} /\ conn'[c].pc \notin {"download", "processing"}
          /\ out'.body.status # "completed"
    \/ /\ conn[c].pc = "idle" /\ conn[c].authenticated /\ AGENT_CACHE = 0
       /\ \E m \in Msgs : /\ m.shape = "object"
                          /\ MessageType(m) \in {"chat", "query"}
                          /\ Recv(c, m, FALSE)
    \/ conn[c].authenticated /\ Recv(c, SomeValue, TRUE)

C16_RoutedExceptionsCaught ==
    [][\A c \in Conns :
          out'.conn = c /\ Raises(c) =>
             /\ out'.sent /\ IsError(out'.body)
             /\ conn'[c].pc = "idle"
             /\ conn'[c].authenticated
             /\ conn'[c].session_key = conn[c].session_key]_vars

\* agent.run raised and the client, still authenticated, has its error reply.
C16_Witness ==
    \E c \in Conns :
        /\ out = Sent(c, Error("agent.run raised"))
        /\ conn[c].pc = "idle"
        /\ conn[c].authenticated

\* C18. At no time are two agent.run invocations in progress on the shared
\* agent instance.
Running == {c \in Conns : conn[c].pc = "agent"}

C18_AgentSerialized == Cardinality(Running) <= 1

\* C19. The agent is a process-wide singleton: once an instance is cached the
\* cache never changes, so AGENT.build succeeds at most once; every
\* agent.run that starts runs on the cached instance; a chat request handled
\* while nothing is cached and the build fails is answered with an error and
\* leaves the cache empty, and the next request builds again.
C19_AgentSingleton ==
    [][/\ AGENT_CACHE # 0 => AGENT_CACHE' = AGENT_CACHE
       /\ \A c \in Conns :
             /\ conn'[c].pc = "agent" =>
                   /\ AGENT_CACHE' # 0
                   /\ conn'[c].job.agent = AGENT_CACHE'
             /\ ( /\ conn[c].pc = "idle" /\ conn[c].authenticated
                  /\ AGENT_CACHE = 0 /\ out'.conn = c ) =>
                   \A m \in PairMsgs :
                      MessageType(m) \in {"chat", "query"} =>
                         /\ Handled(c, m, FALSE) =>
                               /\ AGENT_CACHE' = 0
                               /\ out'.sent /\ IsError(out'.body)
                               /\ conn'[c].pc = "idle"
                         /\ Handled(c, m, TRUE) => AGENT_CACHE' # 0]_vars

\* Two connections run their queries on the one cached instance.
C19_Witness ==
    \E c, d \in Conns :
        /\ c # d
        /\ conn[c].pc = "agent" /\ conn[d].pc = "agent"
        /\ AGENT_CACHE # 0
        /\ conn[c].job.agent = AGENT_CACHE
        /\ conn[d].job.agent = AGENT_CACHE

\* C20. When a chat request fails with an exception, the connection's pending
\* catalog and the catalog of its stored session are after the error reply
\* what they were before the message, and no other connection's state and no
\* other session changes.
ChatFails(c) ==
    \/ conn[c].pc = "agent" /\ conn'[c].pc # "agent"
          /\ out'.body # [NoReply EXCEPT !.answer = conn[c].job.query]
    \/ /\ conn[c].pc = "idle" /\ conn[c].authenticated /\ AGENT_CACHE = 0
       /\ \E m \in PairMsgs : /\ MessageType(m) \in {"chat", "query"}
                             /\ Handled(c, m, FALSE)

OthersUntouched(c) ==
    /\ \A d \in Conns \ {c} : conn'[d] = conn[d]
    /\ \A k \in Keys \ {conn[c].session_key} : sess'[k] = sess[k]
    /\ SESSION_STORE' = SESSION_STORE

C20_ChatErrorFrame ==
    [][\A c \in Conns :
          out'.conn = c /\ ChatFails(c) =>
             /\ conn'[c].pending_courses = conn[c].pending_courses
             /\ sess'[conn[c].session_key].pending_courses
                   = sess[conn[c].session_key].pending_courses
             /\ OthersUntouched(c)]_vars

\* C20 for everything but the failing connection's own catalog.
C20_OthersUntouched ==
    [][\A c \in Conns : out'.conn = c /\ ChatFails(c) => OthersUntouched(c)]_vars

\* C21. Download requests of different connections do not disturb one
\* another: the downloader started for a request selects, out of the courses
\* Canvas lists, those of the request's own course_ids (all of them when it
\* named none, none when its own auto_confirm is false), and the stats of its
\* "completed" reply count the courses of that request alone.
OwnSelection(job, courses) ==
    IF ~job.auto_confirm THEN <<>>
    ELSE IF job.course_ids = <<>> THEN courses
    ELSE SelectSeq(courses, LAMBDA id : id \in Range(job.course_ids))

C21_DownloadIsolation ==
    [][\A c \in Conns :
          out'.conn = c =>
             /\ conn[c].pc = "download" /\ conn'[c].pc = "processing" =>
                   \E courses \in Catalogs :
                      conn'[c].job.selected = OwnSelection(conn[c].job, courses)
             /\ ( /\ conn[c].pc \in {"download", "processing"}
                  /\ out'.body.status = "completed" ) =>
                   out'.body.stats = Len(conn[c].job.selected)]_vars

\* C22. The idle TTL is checked between the messages of an open connection:
\* a handler whose session has been idle for longer than the TTL (or has been
\* pruned) does not pass the next message it takes to the agent or to the
\* downloader.
Lapsed(k) == k \in Expired(now) \/ k \notin SESSION_STORE

C22_IdleTtlBetweenMessages ==
    [][\A c \in Conns :
          ( /\ conn[c].pc = "idle" /\ conn[c].authenticated
            /\ Lapsed(conn[c].session_key) ) =>
             conn'[c].pc \notin {"agent", "catalog", "download"}]_vars

\* C23. While the clock does not go back, the last_seen of a session in the
\* store never decreases, whichever of create_session, get_session,
\* update_session and prune_sessions the connections call; and a key that
\* was issued and is no longer in the store (pruned as expired) is never in
\* the store again.
C23_LastSeenMonotonic ==
    [][/\ \A k \in SESSION_STORE \cap SESSION_STORE' :
             sess'[k].last_seen >= sess[k].last_seen
       /\ \A k \in Issued : k \notin SESSION_STORE => k \notin SESSION_STORE']_vars

\* After two time units one issued session has been pruned and the other is
\* in the store, stamped with the current time.
C23_Witness ==
    /\ minted = 2
    /\ 1 \notin SESSION_STORE
    /\ 2 \in SESSION_STORE
    /\ sess[2].last_seen = 2
    /\ now = 2

\* C24. Session state is guarded by SESSION_LOCK: every lookup, insert and
\* prune of the session store and every assignment to a field of a stored
\* session (last_seen, pending_courses) is made while the lock is held.
C24_AsStated ==
    \A i \in DOMAIN accesses : accesses[i].stored => accesses[i].locked

\* C24, amended.  Every lookup, insert and prune of the session store, and
\* the last_seen stamp of get_session, is made while SESSION_LOCK is held; the
\* last_seen stamp of update_session and the handler's assignment of
\* pending_courses to its session dict are made without the lock, also when
\* the dict is in the store.  The accesses of a step are those of one handler:
\* no handler suspends inside them.
StoreOps == {"prune", "lookup", "insert"}

C24_StoreOperationsLocked ==
    /\ \A i \in DOMAIN accesses :
          /\ accesses[i].op \in StoreOps => accesses[i].locked
          /\ ~accesses[i].locked =>
                /\ accesses[i].op \in {"last_seen", "pending_courses"}
                /\ \E j \in DOMAIN accesses : j > i /\ accesses[j].op = "lookup"
    /\ accesses # <<>> => out.conn \in Conns

\* A handler bound to a stored session finished a routed message: it wrote
\* pending_courses and last_seen of the stored dict without the lock, then
\* looked the key up and stored the dict with the lock held.
C24_Witness ==
    /\ out.conn \in Conns
    /\ conn[out.conn].session_key \in SESSION_STORE
    /\ accesses = <<Access("pending_courses", FALSE, TRUE), Access("last_seen", FALSE, TRUE),
                    Access("lookup", TRUE, TRUE), Access("insert", TRUE, TRUE)>>

\* C25. The "completed" reply of a download run leaves the handler and its
\* session without a pending catalog; while the handler has none, a download
\* request with a course_indices list (course_ids absent or well-formed) is
\* answered "Course list not initialized"; and every error reply that
\* handle_download_request returns, before or after its catalog fetch, leaves
\* the catalog of the handler and of its session as it was.
NotInitialized == Error("Course list not initialized. Request the course list first.")

DownloadRejected(c) ==
    /\ out'.sent /\ IsError(out'.body)
    /\ \/ conn[c].pc = "catalog"
       \/ /\ conn[c].pc = "idle" /\ conn[c].authenticated
          /\ \E m \in DownloadMsgs :
                /\ m.shape = "object" /\ MessageType(m) = "download"
                /\ Handled(c, m, TRUE)

C25_CatalogClearedAfterRun ==
    [][\A c \in Conns :
          out'.conn = c =>
             /\ out'.body.status = "completed" =>
                   /\ ~conn'[c].pending_courses.some
                   /\ ~sess'[conn[c].session_key].pending_courses.some
             /\ ( /\ conn[c].pc = "idle" /\ conn[c].authenticated
                  /\ ~conn[c].pending_courses.some ) =>
                   \A m \in DownloadMsgs :
                      ( /\ m.shape = "object" /\ MessageType(m) = "download"
                        /\ m.course_indices.some /\ m.course_indices.islist
                        /\ WellFormedIds(m) /\ Handled(c, m, TRUE) ) =>
                         /\ out' = Sent(c, NotInitialized)
                         /\ conn'[c].pc = "idle"
             /\ DownloadRejected(c) =>
                   /\ conn'[c].pending_courses = conn[c].pending_courses
                   /\ sess'[conn[c].session_key].pending_courses = conn[c].pending_courses]_vars

\* After a run that processed a course, indices are refused for want of a
\* catalog, in the handler and in its session.
C25_Witness ==
    \E c \in Conns :
        /\ out = Sent(c, NotInitialized)
        /\ stats > 0
        /\ ~conn[c].pending_courses.some
        /\ ~sess[conn[c].session_key].pending_courses.some

\* C26. A session key that was issued and is no longer in the store is never
\* in the store again, whatever the handlers still bound to it do; no
\* connection is authenticated with it again, and an auth message that
\* presents it is answered with an error and the connection is closed.
C26_RemovedKeyStaysInvalid ==
    [][\A k \in Issued :
          k \notin SESSION_STORE =>
             /\ k \notin SESSION_STORE'
             /\ \A c \in Conns :
                   /\ ~conn[c].authenticated /\ conn'[c].authenticated =>
                         conn'[c].session_key # k
                   /\ ( /\ out'.conn = c /\ conn[c].pc = "idle" /\ ~conn[c].authenticated
                        /\ Handled(c, Resume(k), TRUE) ) =>
                         /\ out' = Sent(c, Error("Invalid or expired session_key."))
                         /\ conn'[c].pc = "closed"]_vars

\* A handler is still open on a session that was pruned, has fetched a
\* catalog and stamped the session since, and another connection that
\* presented the key has just been refused.
C26_Witness ==
    \E c, d \in Conns :
        /\ c # d
        /\ conn[c].pc = "idle" /\ conn[c].authenticated
        /\ conn[c].session_key \notin SESSION_STORE
        /\ conn[c].pending_courses.some
        /\ sess[conn[c].session_key].pending_courses.some
        /\ sess[conn[c].session_key].last_seen = now
        /\ now = MaxTime
        /\ conn[d].pc = "closed"
        /\ out = Sent(d, Error("Invalid or expired session_key."))

\* C27. Connections authenticated with the same session key each keep a
\* catalog of their own.  A handler's catalog changes only in its own steps;
\* a course_indices request is resolved against the catalog of the handler
\* that takes it, whatever the session holds; and the catalog stored in a
\* session changes only when a handler bound to it finishes a routed message
\* or closes, to the catalog that handler then holds.
Finishes(c) ==
    /\ out'.conn = c
    /\ conn[c].authenticated
    /\ conn[c].pc # "closed"
    /\ \/ out'.sent /\ conn'[c].pc = "idle"
       \/ conn'[c].pc = "closed"

C27_LastWriterWins ==
    [][/\ \A c \in Conns :
             /\ conn'[c].pending_courses # conn[c].pending_courses => out'.conn = c
             /\ ( /\ conn[c].pc = "idle" /\ conn'[c].pc = "download"
                  /\ conn'[c].job.by_index ) =>
                   /\ conn[c].pending_courses.some
                   /\ Len(conn[c].pending_courses.courses) >= 2
                   /\ conn'[c].job.course_ids = <<conn[c].pending_courses.courses[2]>>
             /\ Finishes(c) =>
                   sess'[conn[c].session_key].pending_courses
                      = IF conn'[c].pc = "closed" THEN conn[c].pending_courses
                        ELSE conn'[c].pending_courses
       /\ \A k \in SESSION_STORE :
             sess'[k].pending_courses # sess[k].pending_courses =>
                \E c \in Conns : conn[c].session_key = k /\ Finishes(c)]_vars

\* Two handlers share a session; the session holds the one-course catalog the
\* second fetched last, and the first resolves index 2 against its own
\* two-course catalog.
C27_Witness ==
    \E c, d \in Conns :
        /\ c # d
        /\ conn[c].authenticated /\ conn[d].authenticated
        /\ conn[c].session_key = conn[d].session_key
        /\ conn[c].pending_courses = SomeCourses(CourseList)
        /\ conn[d].pending_courses = SomeCourses(Tail(CourseList))
        /\ sess[conn[c].session_key].pending_courses = conn[d].pending_courses
        /\ conn[c].pc = "download"
        /\ conn[c].job.by_index
        /\ conn[c].job.course_ids = <<CourseList[2]>>
        /\ conn[d].pc = "idle"

\* C28. The session binding of an authenticated connection is fixed: while
\* the connection is open it stays authenticated with the same session key,
\* and an auth message it receives, whatever its password, TOTP code or
\* session_key, is answered "Unsupported message type: auth", issues no key,
\* adds no session and leaves the handler waiting for the next message.
C28_BindingFixed ==
    [][\A c \in Conns :
          /\ conn[c].authenticated /\ conn'[c].pc # "closed" =>
                /\ conn'[c].authenticated
                /\ conn'[c].session_key = conn[c].session_key
          /\ ( /\ conn[c].pc = "idle" /\ conn[c].authenticated
               /\ out'.conn = c /\ out'.sent ) =>
                \A m \in AuthMsgs :
                   Handled(c, m, TRUE) =>
                      /\ out' = Sent(c, Error("Unsupported message type: auth"))
                      /\ minted' = minted
                      /\ SESSION_STORE' = SESSION_STORE
                      /\ conn'[c].pc = "idle"]_vars

\* An authenticated connection was refused a second authentication; the one
\* key issued is its own.
C28_Witness ==
    \E c \in Conns :
        /\ out = Sent(c, Error("Unsupported message type: auth"))
        /\ conn[c].pc = "idle" /\ conn[c].authenticated
        /\ minted = 1
        /\ conn[c].session_key = 1
        /\ SESSION_STORE = {1}

\* C29. In an auth message a non-blank session_key decides alone.  If the
\* key is in the store and not expired the connection is authenticated with
\* it, whatever the password and TOTP code of the message (absent included);
\* otherwise the reply is "Invalid or expired session_key." and the
\* connection is closed, also when the message carries the valid password
\* and a valid TOTP code, and no key is issued and no session added.
C29_SessionKeyPrecedence ==
    [][\A c \in Conns :
          ( /\ conn[c].pc = "idle" /\ ~conn[c].authenticated
            /\ out'.conn = c /\ out'.sent ) =>
             \A m \in AuthMsgs :
                ( m.session_key > 0 /\ Handled(c, m, TRUE) ) =>
                   /\ minted' = minted
                   /\ SESSION_STORE' \subseteq SESSION_STORE
                   /\ IF m.session_key \in SESSION_STORE \ Expired(now)
                      THEN /\ out' = Sent(c, AuthenticatedReply(m.session_key))
                           /\ conn'[c].authenticated
                           /\ conn'[c].session_key = m.session_key
                      ELSE /\ out' = Sent(c, Error("Invalid or expired session_key."))
                           /\ conn'[c].pc = "closed"
                           /\ m.session_key \notin SESSION_STORE']_vars

\* Where the default password and a current TOTP code would log in, a
\* connection presenting the expired key of the one session ever issued was
\* refused and closed, and no second key was issued.
C29_Witness ==
    \E c \in Conns :
        /\ out = Sent(c, Error("Invalid or expired session_key."))
        /\ conn[c].pc = "closed"
        /\ authenticate_payload(Login(now)).ok
        /\ minted = 1
        /\ SESSION_STORE = {}

\* C30. With CANVAS_WS_SESSION_TTL zero or negative the TTL is zero and
\* expiry is off: prune_sessions removes nothing, every key ever issued is in
\* the store however long its session has been idle, an auth message
\* presenting an issued key is accepted, and no authenticated reply has an
\* expires_in field.
C30_ZeroTtlNoExpiry ==
    [][/\ SESSION_TTL_SECONDS = 0
       /\ prune_sessions = SESSION_STORE
       /\ SESSION_STORE' = 1..minted'
       /\ out'.body.status = "authenticated" => out'.body.expires_in = -1
       /\ \A c \in Conns :
             ( /\ conn[c].pc = "idle" /\ ~conn[c].authenticated
               /\ out'.conn = c /\ out'.sent ) =>
                \A k \in Issued :
                   Handled(c, Resume(k), TRUE) =>
                      /\ out' = Sent(c, [NoReply EXCEPT !.status = "authenticated",
                                                        !.session_key = k])
                      /\ conn'[c].authenticated
                      /\ conn'[c].session_key = k]_vars

\* With a TTL of -1, after two time units the first key issued has just been
\* accepted again, with no expires_in, and the second session, untouched
\* since time 0, is still in the store.
C30_Witness ==
    \E c \in Conns :
        /\ env.CANVAS_WS_SESSION_TTL = TtlInt(-1)
        /\ now = MaxTime
        /\ minted = 2
        /\ SESSION_STORE = {1, 2}
        /\ sess[2].last_seen = 0
        /\ out = Sent(c, [NoReply EXCEPT !.status = "authenticated", !.session_key = 1])
        /\ conn[c].session_key = 1

====
